---- MODULE Spec2Model ----
(***************************************************************************)
(* A model of the nerdify font tools: the weight vocabulary                *)
(* (common/fontweights.py), the filename humanizer and style splitter      *)
(* (nameadjust.py) and the weight inference of createcollection.py.        *)
(*                                                                         *)
(* A Python str is a sequence of one-character strings.  A Python dict is  *)
(* a sequence of [k, v] records in insertion order.                        *)
(***************************************************************************)
EXTENDS Integers, Sequences, FiniteSets, TLC

VARIABLES
    config,      \* the fontweights.toml file load_config reads
    loaded,      \* what load_config gave: not called, raised, or a FontWeights
    ladder,      \* what standard_weights gave for the loaded vocabulary, <<>> before
    phrase0,     \* a phrase handed to canonical_name_for / lookup_value
    phrase,      \* the same phrase respelled (case, hyphen/space, separator runs)
    stem,        \* the filename stem process_font works on
    human,       \* humanize_stem(stem), <<>> before the call
    split,       \* split_family_subfamily(human), <<>> before the call
    clean,       \* make_clean_stem(family, subfamily), <<>> before the call
    emb,         \* the font's embedded family and subfamily, each None or a str
    ccStyle,     \* weight_and_style_from_names(family, subfamily, stem), <<>> before
    naStyle,     \* _infer_weight_and_italic_from_subfamily(subfamily), <<>> before
    tokenIn,     \* the token list handed to strip_style_tokens
    stripped,    \* strip_style_tokens(tokenIn), <<>> before the call
    fonts,       \* the font files handed to derive_collection_basename / sort_fonts
    basename,    \* derive_collection_basename(fonts), <<>> before the call
    rawName,     \* a name handed to sanitize_filename
    sane,        \* the results of sanitize_filename applied again and again
    headers,     \* the first four bytes of each file handed to infer_collection_type
    forced,      \* the forced type handed to infer_collection_type, None or a str
    ctype,       \* what infer_collection_type gave: not called, raised, or a type
    sortOut,     \* sort_fonts(fonts), <<>> before the call
    firstOut,    \* sort_fonts of the first ordering of the same files
    rng,         \* read_wght_range(font): None or (min, max)
    offset,      \* the offset handed to process_font_all_weights
    todo,        \* process_font_all_weights: where the run is and what is left
    attempts,    \* the targets handed to adjust_font_weight, in order
    created,     \* the list process_font_all_weights returns
    discovered,  \* the files a tool's main has discovered, in discovery order
    visited,     \* what main did with each file it came to, in order
    outcome,     \* how main ended: still running, returned a status, or raised
    written,     \* the files saved so far, in order
    args         \* the options and the environment of a run of createcollection

fwVars == <<config, loaded, ladder>>
phraseVars == <<phrase0, phrase>>
nameVars == <<stem, human, split, clean>>
styleVars == <<emb, ccStyle, naStyle>>
stripVars == <<tokenIn, stripped>>
baseVars == <<fonts, basename>>
saneVars == <<rawName, sane>>
typeVars == <<headers, forced, ctype>>
sortVars == <<sortOut, firstOut>>
ladderVars == <<rng, offset, todo, attempts, created>>
mainVars == <<discovered, visited, outcome, written, args>>
vars ==
    <<config, loaded, ladder, phrase0, phrase, stem, human, split, clean,
      emb, ccStyle, naStyle, tokenIn, stripped, fonts, basename, rawName, sane,
      headers, forced, ctype, sortOut, firstOut, rng, offset, todo, attempts,
      created, discovered, visited, outcome, written, args>>

(***************************************************************************)
(* Bounds of the model.                                                    *)
(***************************************************************************)
MaxWeights == 2      \* entries of the [weights] table
MaxAliases == 2      \* entries of the [aliases] table
MaxPhraseLen == 3    \* characters of a looked-up phrase
MaxStemLen == 4      \* characters of a stem spelled from single characters
MaxStemWords == 4    \* words of a stem spelled from whole words
MaxStyleWords == 3   \* words of an embedded subfamily
MaxTokens == 4       \* tokens of a list handed to strip_style_tokens
MaxFonts == 2        \* font files of one collection
MaxNameLen == 4      \* characters of a name handed to sanitize_filename
MaxInputs == 3       \* files handed to infer_collection_type
MaxSorted == 3       \* files handed to sort_fonts
MaxLadder == 3       \* entries of the [weights] table process_font_all_weights reads
MaxBatch == 2        \* fonts discovered by one run of a main

(***************************************************************************)
(* Python str primitives on the characters the model uses.                 *)
(***************************************************************************)
Str(S, n) == UNION {[1..k -> S] : k \in 0..n}

LowerLetters ==
    <<"a", "b", "c", "d", "e", "f", "g", "h", "i", "j", "k", "l", "m",
      "n", "o", "p", "q", "r", "s", "t", "u", "v", "w", "x", "y", "z">>

UpperLetters ==
    <<"A", "B", "C", "D", "E", "F", "G", "H", "I", "J", "K", "L", "M",
      "N", "O", "P", "Q", "R", "S", "T", "U", "V", "W", "X", "Y", "Z">>

DigitChars == <<"0", "1", "2", "3", "4", "5", "6", "7", "8", "9">>

Range(f) == {f[i] : i \in DOMAIN f}

IndexOf(seq, c) == CHOOSE i \in 1..Len(seq) : seq[i] = c

IsSpace(c) == c \in {" ", "\t", "\n"}

IsUpper(c) == c \in Range(UpperLetters)

IsLower(c) == c \in Range(LowerLetters)

IsAlpha(c) == IsUpper(c) \/ IsLower(c)

IsDigit(c) == c \in Range(DigitChars)

LowerChar(c) == IF IsUpper(c) THEN LowerLetters[IndexOf(UpperLetters, c)] ELSE c

UpperChar(c) == IF IsLower(c) THEN UpperLetters[IndexOf(LowerLetters, c)] ELSE c

\* str.lower()
Lower(s) == [i \in 1..Len(s) |-> LowerChar(s[i])]

\* ord(c): the code point str comparison goes by
Ord(c) ==
    CASE IsLower(c) -> 96 + IndexOf(LowerLetters, c)
      [] IsUpper(c) -> 64 + IndexOf(UpperLetters, c)
      [] IsDigit(c) -> 47 + IndexOf(DigitChars, c)
      [] c = "\t" -> 9 [] c = "\n" -> 10 [] c = " " -> 32 [] c = "-" -> 45
      [] c = "." -> 46 [] c = "_" -> 95

RECURSIVE StrLess(_, _)
\* s < t for two str: lexicographic by code point, a proper prefix first
StrLess(s, t) ==
    IF t = <<>> THEN FALSE
    ELSE IF s = <<>> THEN TRUE
    ELSE IF s[1] # t[1] THEN Ord(s[1]) < Ord(t[1])
    ELSE StrLess(Tail(s), Tail(t))

RECURSIVE LStrip(_)
LStrip(s) == IF s # <<>> /\ IsSpace(s[1]) THEN LStrip(Tail(s)) ELSE s

RECURSIVE RStrip(_)
RStrip(s) ==
    IF s # <<>> /\ IsSpace(s[Len(s)]) THEN RStrip(SubSeq(s, 1, Len(s) - 1)) ELSE s

\* str.strip()
Strip(s) == RStrip(LStrip(s))

RECURSIVE SplitFrom(_, _, _, _, _)
\* re.split(r"[<seps>]+", s): the pieces between maximal runs of separators,
\* an empty piece at an end that is a separator included
SplitFrom(s, seps, i, cur, acc) ==
    IF i > Len(s) THEN Append(acc, cur)
    ELSE IF s[i] \in seps
         THEN IF i > 1 /\ s[i - 1] \in seps
              THEN SplitFrom(s, seps, i + 1, cur, acc)
              ELSE SplitFrom(s, seps, i + 1, <<>>, Append(acc, cur))
         ELSE SplitFrom(s, seps, i + 1, Append(cur, s[i]), acc)

ReSplit(s, seps) == SplitFrom(s, seps, 1, <<>>, <<>>)

\* [t for t in pieces if t]
NonEmpty(pieces) == SelectSeq(pieces, LAMBDA t : t # <<>>)

RECURSIVE Join(_, _)
\* sep.join(parts)
Join(parts, sep) ==
    IF parts = <<>> THEN <<>>
    ELSE IF Len(parts) = 1 THEN parts[1]
    ELSE parts[1] \o sep \o Join(Tail(parts), sep)


(***************************************************************************)
(* Python values: Optional[T] is <<>> for None and <<x>> for a value x; a  *)
(* dict is a sequence of [k, v] records in insertion order.                *)
(***************************************************************************)
Some(x) == <<x>>

DictHas(d, k) == \E i \in 1..Len(d) : d[i].k = k

\* d.get(k): None when the key is absent
DictGet(d, k) ==
    IF DictHas(d, k)
    THEN Some(d[CHOOSE i \in 1..Len(d) : d[i].k = k].v)
    ELSE <<>>

\* d[k] = v: an existing key keeps its place, a new key goes last
DictSet(d, k, v) ==
    IF DictHas(d, k)
    THEN [i \in 1..Len(d) |-> IF d[i].k = k THEN [k |-> k, v |-> v] ELSE d[i]]
    ELSE Append(d, [k |-> k, v |-> v])

DictKeys(d) == {d[i].k : i \in 1..Len(d)}

(***************************************************************************)
(* common/fontweights.py                                                   *)
(***************************************************************************)
\* _normalize_phrase without its .lower()
NormalizeKeepingCase(s) ==
    Join(NonEmpty(ReSplit(Strip(s), {" ", "\t", "\n", "-"})), <<" ">>)

\* lowercase, split on whitespace and hyphens, join with single spaces
_normalize_phrase(s) ==
    Join(NonEmpty(ReSplit(Lower(Strip(s)), {" ", "\t", "\n", "-"})), <<" ">>)

\* isinstance(val, int): bool is a subclass of int in Python
IsInstanceInt(val) == val.type \in {"int", "bool"}

\* isinstance(val, str)
IsInstanceStr(val) == val.type = "str"

Raised(msg) == [state |-> "raised", error |-> msg]

RECURSIVE ReadWeights(_, _)
\* the loop over weights_raw.items(): the dict built so far, or the error raised
ReadWeights(entries, acc) ==
    IF entries = <<>> THEN [ok |-> TRUE, d |-> acc]
    ELSE IF ~IsInstanceInt(entries[1].v)
         THEN [ok |-> FALSE, d |-> acc]
         ELSE ReadWeights(Tail(entries), DictSet(acc, entries[1].k, entries[1].v.v))

RECURSIVE MapCanonicalsToNormalized(_, _)
\* MapCanonicals storing the normalised phrase instead of the canonical name
MapCanonicalsToNormalized(c2v, n2c) ==
    IF c2v = <<>> THEN n2c
    ELSE MapCanonicalsToNormalized(Tail(c2v),
             DictSet(n2c, NormalizeKeepingCase(Lower(c2v[1].k)),
                     NormalizeKeepingCase(Lower(c2v[1].k))))

RECURSIVE MapCanonicals(_, _)
\* the loop over canonical_to_value.keys(): each canonical name maps to itself
MapCanonicals(c2v, n2c) ==
    IF c2v = <<>> THEN n2c
    ELSE MapCanonicals(Tail(c2v), DictSet(n2c, _normalize_phrase(c2v[1].k), c2v[1].k))

RECURSIVE ApplyAliasesKeepingDangling(_, _, _, _)
\* ApplyAliases without the check that the target is a declared canonical name
ApplyAliasesKeepingDangling(entries, c2v, n2c, warns) ==
    IF entries = <<>> THEN [n2c |-> n2c, warnings |-> warns]
    ELSE IF entries[1].v.type # "str"
         THEN ApplyAliasesKeepingDangling(Tail(entries), c2v, n2c,
                  Append(warns, [kind |-> "not_strings", alias |-> entries[1].k]))
         ELSE ApplyAliasesKeepingDangling(Tail(entries), c2v,
                  DictSet(n2c, NormalizeKeepingCase(Lower(entries[1].k)), entries[1].v.v),
                  warns)

RECURSIVE ApplyAliasesKeepingFirst(_, _, _, _)
\* ApplyAliases registering a phrase only when it is not registered yet
ApplyAliasesKeepingFirst(entries, c2v, n2c, warns) ==
    IF entries = <<>> THEN [n2c |-> n2c, warnings |-> warns]
    ELSE IF entries[1].v.type # "str"
         THEN ApplyAliasesKeepingFirst(Tail(entries), c2v, n2c,
                  Append(warns, [kind |-> "not_strings", alias |-> entries[1].k]))
         ELSE IF ~DictHas(c2v, entries[1].v.v)
         THEN ApplyAliasesKeepingFirst(Tail(entries), c2v, n2c,
                  Append(warns, [kind |-> "unknown_canonical", alias |-> entries[1].k]))
         ELSE ApplyAliasesKeepingFirst(Tail(entries), c2v,
                  IF DictHas(n2c, _normalize_phrase(entries[1].k)) THEN n2c
                  ELSE DictSet(n2c, _normalize_phrase(entries[1].k),
                               entries[1].v.v),
                  warns)

RECURSIVE ApplyAliases(_, _, _, _)
\* the loop over aliases_raw.items(): the mapping and the warnings printed
ApplyAliases(entries, c2v, n2c, warns) ==
    IF entries = <<>> THEN [n2c |-> n2c, warnings |-> warns]
    ELSE LET alias == entries[1].k
             canon == entries[1].v
         IN  IF ~IsInstanceStr(canon)
             THEN ApplyAliases(Tail(entries), c2v, n2c,
                               Append(warns, [kind |-> "not_strings", alias |-> alias]))
             ELSE IF ~DictHas(c2v, canon.v)
             THEN ApplyAliases(Tail(entries), c2v, n2c,
                               Append(warns, [kind |-> "unknown_canonical", alias |-> alias]))
             ELSE ApplyAliases(Tail(entries), c2v,
                               DictSet(n2c, _normalize_phrase(alias), canon.v), warns)

\* a TOML value is falsy when it is an empty table or a scalar such as 0, "", false
Truthy(val) ==
    CASE val.kind = "absent" -> FALSE
      [] val.kind = "scalar" -> val.truthy
      [] val.kind = "table" -> val.entries # <<>>

load_config(file) ==
    IF ~file.exists THEN Raised("not found")
    ELSE IF ~file.parses THEN Raised("invalid toml")
    ELSE IF file.weights.kind # "table" \/ ~Truthy(file.weights)
    THEN Raised("no non-empty [weights] table")
    ELSE LET w == ReadWeights(file.weights.entries, <<>>)
         IN  IF ~w.ok THEN Raised("weight must be an integer")
             ELSE LET n2c == MapCanonicals(w.d, <<>>)
                  IN  IF ~Truthy(file.aliases)
                      THEN [state |-> "ok", canonical_to_value |-> w.d,
                            normalized_to_canonical |-> n2c, warnings |-> <<>>]
                      ELSE IF file.aliases.kind # "table"
                      THEN Raised("[aliases] must be a table")
                      ELSE LET a == ApplyAliases(file.aliases.entries, w.d, n2c, <<>>)
                           IN  [state |-> "ok", canonical_to_value |-> w.d,
                                normalized_to_canonical |-> a.n2c,
                                warnings |-> a.warnings]

\* ItemLess comparing the values only
ItemLessByValue(t, u) == t[1] < u[1]

\* (t[0], t[1]) < (u[0], u[1]) for two (value, name) items
ItemLess(t, u) == t[1] < u[1] \/ (t[1] = u[1] /\ StrLess(t[2], u[2]))

RECURSIVE InsertSorted(_, _)
InsertSorted(sorted, t) ==
    IF sorted = <<>> THEN <<t>>
    ELSE IF ItemLess(t, sorted[1]) THEN <<t>> \o sorted
    ELSE <<sorted[1]>> \o InsertSorted(Tail(sorted), t)

RECURSIVE SortItems(_, _)
\* list.sort(key=...): a stable sort, an item going after the equal ones before it
SortItems(items, sorted) ==
    IF items = <<>> THEN sorted
    ELSE SortItems(Tail(items), InsertSorted(sorted, items[1]))

standard_weights(cfg) ==
    SortItems([i \in 1..Len(cfg.canonical_to_value) |->
                  <<cfg.canonical_to_value[i].v, cfg.canonical_to_value[i].k>>], <<>>)

canonical_name_for(cfg, p) == DictGet(cfg.normalized_to_canonical, _normalize_phrase(p))

lookup_value(cfg, p) ==
    LET canon == canonical_name_for(cfg, p)
    IN  IF canon = <<>> THEN <<>> ELSE DictGet(cfg.canonical_to_value, canon[1])

(***************************************************************************)
(* nameadjust.py                                                           *)
(***************************************************************************)
RECURSIVE SplitEachFrom(_, _, _, _, _)
\* s.split(sep) and re.split(r"[<seps>]", s): a piece between any two separators
SplitEachFrom(s, seps, i, cur, acc) ==
    IF i > Len(s) THEN Append(acc, cur)
    ELSE IF s[i] \in seps
         THEN SplitEachFrom(s, seps, i + 1, <<>>, Append(acc, cur))
         ELSE SplitEachFrom(s, seps, i + 1, Append(cur, s[i]), acc)

SplitEach(s, seps) == SplitEachFrom(s, seps, 1, <<>>, <<>>)

\* s.endswith(t)
EndsWith(s, t) == Len(s) >= Len(t) /\ SubSeq(s, Len(s) - Len(t) + 1, Len(s)) = t

\* str.title(): a letter after a letter is lower-cased, any other letter upper-cased
Title(s) ==
    [i \in 1..Len(s) |->
        IF i > 1 /\ IsAlpha(s[i - 1]) THEN LowerChar(s[i]) ELSE UpperChar(s[i])]

\* str.capitalize(): the first character upper-cased, the rest lower-cased
Capitalize(s) == [i \in 1..Len(s) |-> IF i = 1 THEN UpperChar(s[i]) ELSE LowerChar(s[i])]

\* re.search(r"[a-z][A-Z]", token)
_is_camel_like(token) ==
    \E i \in 1..(Len(token) - 1) : IsLower(token[i]) /\ IsUpper(token[i + 1])

AllDigits(g) == g # <<>> /\ \A i \in 1..Len(g) : IsDigit(g[i])

\* _VERSION_TOKEN_RE = ^(?:v)?\d+(?:[._]\d+)*$
_is_version_token(token) ==
    LET rest == IF token # <<>> /\ token[1] = "v" THEN Tail(token) ELSE token
        groups == SplitEach(rest, {".", "_"})
    IN  \A i \in 1..Len(groups) : AllDigits(groups[i])

VF == <<"v", "f">>

\* the token of humanize_stem's loop with its trailing VF suffix dropped
DropVFSuffix(tok) ==
    IF EndsWith(Lower(tok), VF) /\ Len(tok) > 2 THEN SubSeq(tok, 1, Len(tok) - 2) ELSE tok

\* Title without the .lower() before and with the first letter only upper-cased
HumanizeTokenCapitalized(tok, out) ==
    LET t == DropVFSuffix(tok)
    IN  IF t = <<>> \/ Lower(t) = VF \/ _is_version_token(t) THEN out
        ELSE IF _is_camel_like(t) THEN Append(out, t)
        ELSE Append(out, Capitalize(t))

\* one turn of humanize_stem's loop: the list out after token tok
HumanizeToken(tok, out) ==
    LET t == DropVFSuffix(tok)
    IN  IF t = <<>> THEN out
        ELSE IF Lower(t) = VF THEN out
        ELSE IF _is_version_token(t) THEN out
        ELSE IF _is_camel_like(t) THEN Append(out, t)
        ELSE Append(out, Title(Lower(t)))

RECURSIVE HumanizeTokens(_, _)
HumanizeTokens(tokens, out) ==
    IF tokens = <<>> THEN out
    ELSE HumanizeTokens(Tail(tokens), HumanizeToken(tokens[1], out))

humanize_stem(s) ==
    Strip(Join(HumanizeTokens(NonEmpty(ReSplit(s, {"_", "-"})), <<>>), <<" ">>))

_BASE_STYLES ==
    <<<<"T", "h", "i", "n">>,
      <<"E", "x", "t", "r", "a", " ", "L", "i", "g", "h", "t">>,
      <<"L", "i", "g", "h", "t">>,
      <<"R", "e", "g", "u", "l", "a", "r">>,
      <<"M", "e", "d", "i", "u", "m">>,
      <<"S", "e", "m", "i", " ", "B", "o", "l", "d">>,
      <<"B", "o", "l", "d">>,
      <<"E", "x", "t", "r", "a", " ", "B", "o", "l", "d">>,
      <<"B", "l", "a", "c", "k">>>>

Italic == <<"I", "t", "a", "l", "i", "c">>

_STYLE_SET ==
    Range(_BASE_STYLES)
        \cup {_BASE_STYLES[i] \o <<" ">> \o Italic : i \in 1..Len(_BASE_STYLES)}
        \cup {Italic}

Regular == <<"R", "e", "g", "u", "l", "a", "r">>

\* the phrase of toks[start..end]
Window(toks, start, end) == Join(SubSeq(toks, start, end), <<" ">>)

\* the size loop at end index i trying the sizes 1, 2, 3: the shortest window first
FirstSizeAtShortestFirst(toks, i) ==
    IF Window(toks, i, i) \in _STYLE_SET THEN 1
    ELSE IF i >= 2 /\ Window(toks, i - 1, i) \in _STYLE_SET THEN 2
    ELSE IF i >= 3 /\ Window(toks, i - 2, i) \in _STYLE_SET THEN 3
    ELSE 0

\* the size loop at end index i: the first of the sizes 3, 2, 1 whose window is a
\* style phrase, 0 when none is
FirstSizeAt(toks, i) ==
    IF i >= 3 /\ Window(toks, i - 2, i) \in _STYLE_SET THEN 3
    ELSE IF i >= 2 /\ Window(toks, i - 1, i) \in _STYLE_SET THEN 2
    ELSE IF Window(toks, i, i) \in _STYLE_SET THEN 1
    ELSE 0

RECURSIVE FindStyle(_, _)
\* the search from end index i leftwards: found = <<start, end>>, or <<>> for None
FindStyle(toks, i) ==
    IF i < 1 THEN <<>>
    ELSE IF FirstSizeAt(toks, i) # 0 THEN <<i - FirstSizeAt(toks, i) + 1, i>>
    ELSE FindStyle(toks, i - 1)

\* x or y for two str
StrOr(x, y) == IF x # <<>> THEN x ELSE y

\* the family of split_family_subfamily without its fallback to humanized
FamilyOfRemainder(toks, found, humanized) ==
    Strip(Join(SubSeq(toks, 1, found[1] - 1) \o SubSeq(toks, found[2] + 1, Len(toks)),
               <<" ">>))

\* the family split_family_subfamily returns for a match found in toks
FamilyOf(toks, found, humanized) ==
    StrOr(Strip(Join(SubSeq(toks, 1, found[1] - 1)
                         \o SubSeq(toks, found[2] + 1, Len(toks)), <<" ">>)),
          humanized)

split_family_subfamily(humanized) ==
    LET toks == NonEmpty(SplitEach(humanized, {" "}))
        found == FindStyle(toks, Len(toks))
    IN  IF toks = <<>> THEN [family |-> <<>>, subfamily |-> Regular]
        ELSE IF found = <<>> THEN [family |-> humanized, subfamily |-> Regular]
        ELSE [family |-> FamilyOf(toks, found, humanized),
              subfamily |-> Window(toks, found[1], found[2])]

\* s.replace(" ", "_")
SpacesToUnderscores(s) == [i \in 1..Len(s) |-> IF s[i] = " " THEN "_" ELSE s[i]]

make_clean_stem(family, subfamily) ==
    LET fam == SpacesToUnderscores(family)
        sub == SpacesToUnderscores(subfamily)
    IN  IF sub # <<>> THEN fam \o <<"-">> \o sub ELSE fam

(***************************************************************************)
(* createcollection.py: the weight and the italic flag of a font           *)
(***************************************************************************)
\* k in s for two str
Contains(s, k) ==
    \E i \in 0..(Len(s) - Len(k)) : \A j \in 1..Len(k) : s[i + j] = k[j]

\* x in xs for a list
InList(xs, x) == \E i \in 1..Len(xs) : xs[i] = x

\* " ".join(s.split()): the words of s between single spaces
SingleSpaced(s) == Join(NonEmpty(ReSplit(s, {" ", "\t", "\n"})), <<" ">>)

WEIGHT_MAP ==
    <<[k |-> <<"t", "h", "i", "n">>, v |-> 100],
      [k |-> <<"h", "a", "i", "r", "l", "i", "n", "e">>, v |-> 100],
      [k |-> <<"e", "x", "t", "r", "a", " ", "l", "i", "g", "h", "t">>, v |-> 200],
      [k |-> <<"e", "x", "t", "r", "a", "l", "i", "g", "h", "t">>, v |-> 200],
      [k |-> <<"u", "l", "t", "r", "a", " ", "l", "i", "g", "h", "t">>, v |-> 200],
      [k |-> <<"u", "l", "t", "r", "a", "l", "i", "g", "h", "t">>, v |-> 200],
      [k |-> <<"l", "i", "g", "h", "t">>, v |-> 300],
      [k |-> <<"r", "e", "g", "u", "l", "a", "r">>, v |-> 400],
      [k |-> <<"b", "o", "o", "k">>, v |-> 400],
      [k |-> <<"r", "o", "m", "a", "n">>, v |-> 400],
      [k |-> <<"m", "e", "d", "i", "u", "m">>, v |-> 500],
      [k |-> <<"s", "e", "m", "i", " ", "b", "o", "l", "d">>, v |-> 600],
      [k |-> <<"s", "e", "m", "i", "b", "o", "l", "d">>, v |-> 600],
      [k |-> <<"d", "e", "m", "i", " ", "b", "o", "l", "d">>, v |-> 600],
      [k |-> <<"d", "e", "m", "i", "b", "o", "l", "d">>, v |-> 600],
      [k |-> <<"b", "o", "l", "d">>, v |-> 700],
      [k |-> <<"e", "x", "t", "r", "a", " ", "b", "o", "l", "d">>, v |-> 800],
      [k |-> <<"e", "x", "t", "r", "a", "b", "o", "l", "d">>, v |-> 800],
      [k |-> <<"u", "l", "t", "r", "a", " ", "b", "o", "l", "d">>, v |-> 800],
      [k |-> <<"u", "l", "t", "r", "a", "b", "o", "l", "d">>, v |-> 800],
      [k |-> <<"b", "l", "a", "c", "k">>, v |-> 900],
      [k |-> <<"h", "e", "a", "v", "y">>, v |-> 900]>>

ITALIC_TOKENS == {<<"i", "t", "a", "l", "i", "c">>, <<"o", "b", "l", "i", "q", "u", "e">>}

\* [t.strip().lower() for t in re.split(r"[-_]+", stem) if t.strip()]
tokenize_stem(s) ==
    LET raw == SelectSeq(ReSplit(s, {"-", "_"}), LAMBDA t : Strip(t) # <<>>)
    IN  [i \in 1..Len(raw) |-> Lower(Strip(raw[i]))]

Style(w, it) == [weight |-> w, italic |-> it]

\* for k, v in d.items(): if <k hits>: return v, in the order of d, hits being
\* the indices of the entries whose key hits; None if none hits
FirstWeight(d, hits) ==
    IF hits = {} THEN <<>>
    ELSE Some(d[CHOOSE i \in hits : \A j \in hits : i <= j].v)

\* _infer_from(s) of weight_and_style_from_names, s being None (<<>>) or <<str>>
InferFrom(s) ==
    IF s = <<>> \/ s = Some(<<>>) THEN Style(<<>>, FALSE)
    ELSE LET s_norm == SingleSpaced(Lower(s[1]))
         IN  Style(FirstWeight(WEIGHT_MAP,
                               {i \in 1..Len(WEIGHT_MAP) : Contains(s_norm, WEIGHT_MAP[i].k)}),
                   \E tok \in ITALIC_TOKENS : Contains(s_norm, tok))

weight_and_style_from_names(family, subfamily, st) ==
    LET sub == InferFrom(subfamily)
        fam == InferFrom(family)
        toks == tokenize_stem(st)
        pairs == [i \in 1..(Len(toks) - 1) |-> toks[i] \o <<" ">> \o toks[i + 1]]
        it_toks == \E t \in ITALIC_TOKENS : InList(toks, t)
        w == FirstWeight(WEIGHT_MAP,
                         {i \in 1..Len(WEIGHT_MAP) :
                             InList(toks, WEIGHT_MAP[i].k) \/ InList(pairs, WEIGHT_MAP[i].k)})
    IN  IF sub.weight # <<>> THEN sub
        ELSE IF fam.weight # <<>> THEN Style(fam.weight, sub.italic \/ fam.italic)
        ELSE Style(w, it_toks)

(***************************************************************************)
(* nameadjust.py: the weight class and the italic flag of a subfamily      *)
(***************************************************************************)
\* the weight map of _infer_weight_and_italic_from_subfamily: the entries of
\* createcollection's WEIGHT_MAP in the same order
weight_map == WEIGHT_MAP

RECURSIVE InsertByLength(_, _)
InsertByLength(sorted, e) ==
    IF sorted = <<>> THEN <<e>>
    ELSE IF Len(e.k) > Len(sorted[1].k) THEN <<e>> \o sorted
    ELSE <<sorted[1]>> \o InsertByLength(Tail(sorted), e)

RECURSIVE ByLengthDescending(_, _)
\* sorted(weight_map.keys(), key=len, reverse=True): stable, the longest key first
ByLengthDescending(d, sorted) ==
    IF d = <<>> THEN sorted
    ELSE ByLengthDescending(Tail(d), InsertByLength(sorted, d[1]))

\* the entries of weight_map in the order the loop visits their keys
LongestFirst == ByLengthDescending(weight_map, <<>>)

_infer_weight_and_italic_from_subfamily(subfamily) ==
    LET s == SingleSpaced(Lower(subfamily))
        w == FirstWeight(LongestFirst,
                         {i \in 1..Len(LongestFirst) : Contains(s, LongestFirst[i].k)})
    IN  Style(IF w # <<>> THEN w ELSE Some(400),
              Contains(Lower(subfamily), <<"i", "t", "a", "l", "i", "c">>))

(***************************************************************************)
(* createcollection.py: the base name of a collection                      *)
(***************************************************************************)
\* k in WEIGHT_MAP
InWeightMap(k) == \E i \in 1..Len(WEIGHT_MAP) : WEIGHT_MAP[i].k = k

VF_MARKERS == {<<"v", "f">>, <<"v", "a", "r", "i", "a", "b", "l", "e">>, <<"v", "a", "r">>}

\* strip_style_tokens that keeps the weight words
StripKeepingWeights(toks, i, result) ==
    SelectSeq(toks, LAMBDA t : ~(t \in ITALIC_TOKENS \/ t \in VF_MARKERS \/ _is_version_token(t)))

RECURSIVE StripFrom(_, _, _)
\* the while loop of strip_style_tokens from index i (from 1 here), result so far
StripFrom(toks, i, result) ==
    IF i > Len(toks) THEN result
    ELSE IF i + 1 <= Len(toks) /\ InWeightMap(toks[i] \o <<" ">> \o toks[i + 1])
         THEN StripFrom(toks, i + 2, result)
    ELSE IF \/ InWeightMap(toks[i])
            \/ toks[i] \in ITALIC_TOKENS
            \/ toks[i] \in VF_MARKERS
            \/ _is_version_token(toks[i])
         THEN StripFrom(toks, i + 1, result)
    ELSE StripFrom(toks, i + 1, Append(result, toks[i]))

strip_style_tokens(toks) == StripFrom(toks, 1, <<>>)

\* one record of a font's name table: its name ID, its platform (Windows 3/1,
\* Mac 1/0 or another) and its text, None when toUnicode() raises
NameRecord(nid, plat, text) == [nameID |-> nid, platform |-> plat, text |-> text]

RECURSIVE GetName(_, _)
\* _get(nid) of read_family_and_subfamily over the records names
GetName(names, nid) ==
    IF names = <<>> THEN <<>>
    ELSE IF /\ names[1].nameID = nid
            /\ names[1].platform \in {"windows", "mac"}
            /\ names[1].text # <<>>
         THEN Some(Strip(names[1].text[1]))
    ELSE GetName(Tail(names), nid)

read_family_and_subfamily(p) ==
    [family |-> GetName(p.names, 1), subfamily |-> GetName(p.names, 2)]

\* min(len(t) for t in list_of_tokens)
MinLen(list_of_tokens) ==
    CHOOSE n \in {Len(list_of_tokens[i]) : i \in 1..Len(list_of_tokens)} :
        \A i \in 1..Len(list_of_tokens) : n <= Len(list_of_tokens[i])

RECURSIVE CommonFrom(_, _, _, _)
\* the loop of common_token_prefix from index idx (from 1 here)
CommonFrom(list_of_tokens, idx, min_len, out) ==
    IF idx > min_len THEN out
    ELSE IF Cardinality({list_of_tokens[i][idx] : i \in 1..Len(list_of_tokens)}) = 1
         THEN CommonFrom(list_of_tokens, idx + 1, min_len,
                         Append(out, list_of_tokens[1][idx]))
    ELSE out

common_token_prefix(list_of_tokens) ==
    IF list_of_tokens = <<>> THEN <<>>
    ELSE CommonFrom(list_of_tokens, 1, MinLen(list_of_tokens), <<>>)

\* the characters sanitize_filename allows: [A-Za-z0-9._-]
Allowed(c) == IsAlpha(c) \/ IsDigit(c) \/ c \in {".", "_", "-"}

\* re.sub(c + "+", c, s): every run of c becomes one c
Collapse(s, c) ==
    LET keep == {i \in 1..Len(s) : ~(s[i] = c /\ i > 1 /\ s[i - 1] = c)}
        Nth(n) == CHOOSE i \in keep : Cardinality({j \in keep : j <= i}) = n
    IN  [n \in 1..Cardinality(keep) |-> s[Nth(n)]]

RECURSIVE StripChars(_, _)
\* s.strip(chars)
StripChars(s, chars) ==
    IF s = <<>> THEN s
    ELSE IF s[1] \in chars THEN StripChars(Tail(s), chars)
    ELSE IF s[Len(s)] \in chars THEN StripChars(SubSeq(s, 1, Len(s) - 1), chars)
    ELSE s

\* sanitize_filename without the final trimming
SanitizeUntrimmed(name) ==
    Collapse(Collapse(SelectSeq([i \in 1..Len(name) |-> IF name[i] = " " THEN "_" ELSE name[i]],
                                Allowed), "_"), "-")

sanitize_filename(name) ==
    LET underscored == [i \in 1..Len(name) |-> IF name[i] = " " THEN "_" ELSE name[i]]
        filtered == SelectSeq(underscored, Allowed)
    IN  StripChars(Collapse(Collapse(filtered, "_"), "-"), {"-", ".", "_"})

RECURSIVE Advance(_, _, _)
\* while fi < len(first_tokens) and first_tokens[fi].strip().lower() != tok: fi += 1
\* (fi from 1 here)
Advance(first_tokens, fi, tok) ==
    IF fi <= Len(first_tokens) /\ Lower(Strip(first_tokens[fi])) # tok
    THEN Advance(first_tokens, fi + 1, tok)
    ELSE fi

RECURSIVE BaseTokens(_, _, _, _)
\* the loop of derive_collection_basename over the prefix: base_tokens at its end
BaseTokens(prefix, first_tokens, fi, base_tokens) ==
    IF prefix = <<>> THEN base_tokens
    ELSE LET at == Advance(first_tokens, fi, prefix[1])
         IN  IF at <= Len(first_tokens)
             THEN BaseTokens(Tail(prefix), first_tokens, at + 1,
                             Append(base_tokens, Strip(first_tokens[at])))
             ELSE BaseTokens(Tail(prefix), first_tokens, at,
                             Append(base_tokens, prefix[1]))

\* the normalised family labels derive_collection_basename collects
FamilyLabels(fs) ==
    LET fam(i) == read_family_and_subfamily(fs[i]).family
        has == {i \in 1..Len(fs) : fam(i) # <<>> /\ fam(i) # Some(<<>>)}
    IN  {SingleSpaced(fam(i)[1]) : i \in has} \ {<<>>}

\* the filename fallback that takes every token from the lower-cased prefix
FilenameFallbackLowerCase(fs) ==
    LET token_lists == [i \in 1..Len(fs) |-> strip_style_tokens(tokenize_stem(fs[i].stem))]
        prefix == common_token_prefix(token_lists)
    IN  IF prefix # <<>> THEN sanitize_filename(Join(prefix, <<" ">>))
        ELSE sanitize_filename(StrOr(fs[1].dir, fs[1].stem))

\* derive_collection_basename from "Fallback to filename token prefix" on
FilenameFallback(fs) ==
    LET token_lists == [i \in 1..Len(fs) |-> strip_style_tokens(tokenize_stem(fs[i].stem))]
        prefix == common_token_prefix(token_lists)
        first_tokens == ReSplit(fs[1].stem, {"-", "_"})
    IN  IF prefix # <<>>
        THEN sanitize_filename(Join(BaseTokens(prefix, first_tokens, 1, <<>>), <<" ">>))
        ELSE sanitize_filename(StrOr(fs[1].dir, fs[1].stem))

\* the consensus test that asks every font for the same non-empty family
UniqueOverAllFonts(fs) ==
    IF \E i \in 1..Len(fs) :
          LET fam == read_family_and_subfamily(fs[i]).family
          IN  fam = <<>> \/ fam = Some(<<>>)
    THEN {}
    ELSE FamilyLabels(fs)

\* unique = {f for f in families if f}
Unique(fs) == FamilyLabels(fs)

\* derive_collection_basename that returns a label as soon as one is embedded
DeriveAnyLabel(fs) ==
    IF Unique(fs) # {} THEN CHOOSE f \in Unique(fs) : TRUE
    ELSE FilenameFallback(fs)

derive_collection_basename(fs) ==
    IF Cardinality(Unique(fs)) = 1 THEN CHOOSE f \in Unique(fs) : TRUE
    ELSE FilenameFallback(fs)

(***************************************************************************)
(* createcollection.py: the container type of a collection                 *)
(***************************************************************************)
\* the first four bytes of a file: b"OTTO", b"\x00\x01\x00\x00", b"true", or
\* others (b"wOFF", and a file shorter than four bytes)
OTTO == "OTTO"
TrueType1 == "00010000"
TrueTag == "true"
WOFF == "wOFF"
ShortFile == "short"

ValueError(msg) == [state |-> "raised", error |-> msg]

Returned(t) == [state |-> "ok", type |-> t]

\* sniff_sfnt_type that does not know the 'true' header
SniffWithoutTrueTag(head) ==
    IF head = OTTO THEN Returned("otf")
    ELSE IF head = TrueType1 THEN Returned("ttf")
    ELSE ValueError("Unrecognized sfnt header")

sniff_sfnt_type(head) ==
    IF head = OTTO THEN Returned("otf")
    ELSE IF head \in {TrueType1, TrueTag} THEN Returned("ttf")
    ELSE ValueError("Unrecognized sfnt header")

TTC == <<"t", "t", "c">>
OTC == <<"o", "t", "c">>

infer_collection_type(paths, f) ==
    IF paths = <<>> THEN ValueError("No input fonts to infer type from")
    ELSE IF \E i \in 1..Len(paths) : sniff_sfnt_type(paths[i]).state = "raised"
         THEN ValueError("Unrecognized sfnt header")
    ELSE LET kinds == {sniff_sfnt_type(paths[i]).type : i \in 1..Len(paths)}
         IN  IF f # <<>> /\ f[1] # <<>>
             THEN IF Lower(f[1]) \notin {TTC, OTC}
                  THEN ValueError("--type must be 'ttc' or 'otc'")
                  ELSE IF kinds # {IF Lower(f[1]) = TTC THEN "ttf" ELSE "otf"}
                  THEN ValueError("Forced type conflicts with input types")
                  ELSE Returned(Lower(f[1]))
             ELSE IF kinds = {"ttf"} THEN Returned(TTC)
             ELSE IF kinds = {"otf"} THEN Returned(OTC)
             ELSE ValueError("Mixed TTF/OTF inputs; specify --type or filter inputs")

(***************************************************************************)
(* createcollection.py: the order of the fonts of a collection             *)
(***************************************************************************)
\* p.name: the file name with its suffix
FileName(p) == p.stem \o p.suffix

\* the sort key that puts a font of unknown weight first
SortKeyUnweightedFirst(p) ==
    LET names == read_family_and_subfamily(p)
        st == weight_and_style_from_names(names.family, names.subfamily, p.stem)
    IN  <<IF st.weight # <<>> THEN st.weight[1] ELSE 0,
          IF st.italic THEN 1 ELSE 0,
          Lower(FileName(p))>>

\* the key sort_fonts gives font p: (weight_key, 1 if it else 0, p.name.lower())
SortKey(p) ==
    LET names == read_family_and_subfamily(p)
        st == weight_and_style_from_names(names.family, names.subfamily, p.stem)
    IN  <<IF st.weight # <<>> THEN st.weight[1] ELSE 1000,
          IF st.italic THEN 1 ELSE 0,
          Lower(FileName(p))>>

\* k < l for two keys, as tuples
KeyLess(k, l) ==
    \/ k[1] < l[1]
    \/ k[1] = l[1] /\ k[2] < l[2]
    \/ k[1] = l[1] /\ k[2] = l[2] /\ StrLess(k[3], l[3])

RECURSIVE InsertKeyed(_, _)
\* p put into the sorted list behind every font whose key is not greater
InsertKeyed(sorted, p) ==
    IF sorted = <<>> THEN <<p>>
    ELSE IF KeyLess(SortKey(p), SortKey(sorted[1])) THEN <<p>> \o sorted
    ELSE <<sorted[1]>> \o InsertKeyed(Tail(sorted), p)

RECURSIVE SortKeyed(_, _)
\* keyed.sort(key=...): stable, fonts of equal key stay in their input order
SortKeyed(fs, sorted) ==
    IF fs = <<>> THEN sorted
    ELSE SortKeyed(Tail(fs), InsertKeyed(sorted, fs[1]))

sort_fonts(fs) == SortKeyed(fs, <<>>)

(***************************************************************************)
(* weightadjust.py: one output per standard weight.  A float is counted in *)
(* quarters: Float(712, 2) is 712.5, Float(-12, -2) is -12.5; sums and     *)
(* comparisons of such floats are exact.                                   *)
(***************************************************************************)
Float(n, q) == 4 * n + q

\* float(weight).is_integer()
IsInteger(w) == w % 4 = 0

RECURSIVE Decimal(_)
\* str(n) for an int n >= 0
Decimal(n) ==
    IF n < 10 THEN <<DigitChars[n + 1]>>
    ELSE Decimal(n \div 10) \o <<DigitChars[(n % 10) + 1]>>

\* str(int(w)) for a whole float w
StrInt(w) == IF w < 0 THEN <<"-">> \o Decimal((-w) \div 4) ELSE Decimal(w \div 4)

\* the digits str() writes behind the point
Fraction(q) ==
    CASE q = 0 -> <<"0">>
      [] q = 1 -> <<"2", "5">>
      [] q = 2 -> <<"5">>
      [] q = 3 -> <<"7", "5">>

\* str(w) for a float w below 1e16: sign, whole part, point, fraction
StrFloat(w) ==
    LET a == IF w < 0 THEN -w ELSE w
    IN  (IF w < 0 THEN <<"-">> ELSE <<>>) \o Decimal(a \div 4) \o <<".">> \o Fraction(a % 4)

\* _weight_for_filename without the test for whole numbers
WeightForFilenameAsFloat(weight) == StrFloat(weight)

_weight_for_filename(weight) ==
    IF IsInteger(weight) THEN StrInt(weight) ELSE StrFloat(weight)

compose_weight_basename(font, weight_name, base, resolved, off) ==
    IF off = 0 THEN font.stem \o <<"-">> \o weight_name
    ELSE font.stem \o <<"-">> \o weight_name \o <<"-">> \o _weight_for_filename(resolved)

\* the clamp that only lifts a target below the range
ClampedFromBelow(target, r) ==
    IF r = <<>> THEN target
    ELSE IF target < r[1][1] THEN r[1][1]
    ELSE target

\* process_font_all_weights: target clamped into the range r, None or (mn, mx)
Clamped(target, r) ==
    IF r = <<>> THEN target
    ELSE IF target < r[1][1] THEN r[1][1]
    ELSE IF target > r[1][2] THEN r[1][2]
    ELSE target

DotTtf == <<".", "t", "t", "f">>

\* adjust_font_weight over a font of range r whose mutator ends with rc; ran
\* tells whether the mutator was run
adjust_font_weight(font, weight, r, out_basename, rc) ==
    IF r # <<>> /\ ~(r[1][1] <= weight /\ weight <= r[1][2])
    THEN [state |-> "raised", ran |-> FALSE, path |-> <<>>]
    ELSE LET out_name == IF out_basename # <<>> THEN out_basename \o DotTtf
                         ELSE font.stem \o <<"-">> \o _weight_for_filename(weight) \o DotTtf
         IN  IF rc # 0 THEN [state |-> "raised", ran |-> TRUE, path |-> <<>>]
             ELSE [state |-> "ok", ran |-> TRUE, path |-> out_name]

(***************************************************************************)
(* weightadjust.py: main over the discovered fonts.                        *)
(***************************************************************************)
RECURSIVE CreatedFrom(_, _, _, _, _)
\* the list the loop of process_font_all_weights builds over the weights
\* left, the mutator ending the run for the i-th of them with rcs[i]
CreatedFrom(font, left, off, rcs, acc) ==
    IF left = <<>> THEN acc
    ELSE LET base == left[1][1]
             name == left[1][2]
             target == Clamped(Float(base, 0) + off, font.rng)
             out == compose_weight_basename(font, name, base, target, off)
             p == adjust_font_weight(font, target, font.rng, out, rcs[1])
         IN  CreatedFrom(font, Tail(left), off, Tail(rcs),
                         IF p.state = "ok" THEN Append(acc, p.path) ELSE acc)

RECURSIVE MutatorRuns(_, _, _)
\* how often the loop runs the mutator
MutatorRuns(font, left, off) ==
    IF left = <<>> THEN 0
    ELSE LET target == Clamped(Float(left[1][1], 0) + off, font.rng)
         IN  (IF font.rng # <<>> /\ ~(font.rng[1][1] <= target /\ target <= font.rng[1][2])
              THEN 0 ELSE 1) + MutatorRuns(font, Tail(left), off)

\* process_font_all_weights on a font file: read_wght_range and load_config
\* stand before the loop, outside its try
process_font_all_weights(font, off, file, rcs) ==
    IF ~font.readable THEN Raised("TTLibError")
    ELSE LET cfg == load_config(file)
         IN  IF cfg.state # "ok" THEN Raised(cfg.error)
             ELSE [state |-> "ok",
                   created |-> CreatedFrom(font, standard_weights(cfg), off, rcs, <<>>),
                   runs |-> MutatorRuns(font, standard_weights(cfg), off)]

ReturnedStatus(code) == [state |-> "returned", code |-> code]

RaisedOut(e) == [state |-> "raised", error |-> e]

\* total_failed_fonts: the fonts whose created list came back empty
FontsWithoutOutputs(seen) ==
    Cardinality({i \in 1..Len(seen) : seen[i].created = <<>>})

\* weightadjust main's return value behind the loop, from one output per font
ExitCodeOfFonts(seen) == IF FontsWithoutOutputs(seen) = 0 THEN 0 ELSE 2

(***************************************************************************)
(* createcollection.py: write_collection and main.                         *)
(***************************************************************************)
\* an exception of class cls
Exc(cls, msg) == [state |-> "raised", exc |-> cls, error |-> msg, files |-> <<>>]

\* sniff_sfnt_type(p) is need for every p
Compatible(fs, need) ==
    \A i \in 1..Len(fs) :
        /\ sniff_sfnt_type(fs[i].head).state = "ok"
        /\ sniff_sfnt_type(fs[i].head).type = need

Container(out_path, kind, fs, partial) ==
    [path |-> out_path, kind |-> kind, members |-> fs, partial |-> partial]

\* write_collection that saves without looking at the members' headers
WriteUnchecked(fs, out_path, kind, tools, saves) ==
    IF ~tools THEN Exc("RuntimeError", "fonttools not installed")
    ELSE IF \E i \in 1..Len(fs) : ~fs[i].opens THEN Exc("TTLibError", "cannot open")
    ELSE IF saves = "ok"
    THEN [state |-> "ok", files |-> <<Container(out_path, kind, fs, FALSE)>>]
    ELSE [Exc("OSError", "cannot save") EXCEPT
             !.files = IF saves = "breaks" THEN <<Container(out_path, kind, fs, TRUE)>>
                       ELSE <<>>]

\* write_collection: tools tells whether fontTools can be imported, saves how
\* coll.save ends: "ok", "fails" before it writes, or "breaks" while writing
write_collection(fs, out_path, kind, tools, saves) ==
    IF ~Compatible(fs, IF kind = TTC THEN "ttf" ELSE "otf")
    THEN Exc("ValueError", "not compatible")
    ELSE IF ~tools THEN Exc("RuntimeError", "fonttools not installed")
    ELSE IF \E i \in 1..Len(fs) : ~fs[i].opens THEN Exc("TTLibError", "cannot open")
    ELSE IF saves = "ok"
    THEN [state |-> "ok", files |-> <<Container(out_path, kind, fs, FALSE)>>]
    ELSE [Exc("OSError", "cannot save") EXCEPT
             !.files = IF saves = "breaks" THEN <<Container(out_path, kind, fs, TRUE)>>
                       ELSE <<>>]

\* main's base name when derive_collection_basename raised for want of fontTools
FallbackWithoutTools(fs) ==
    LET token_lists == [i \in 1..Len(fs) |-> strip_style_tokens(tokenize_stem(fs[i].stem))]
        prefix == common_token_prefix(token_lists)
    IN  IF prefix # <<>> THEN sanitize_filename(Join(prefix, <<" ">>))
        ELSE sanitize_filename(StrOr(fs[1].dir, fs[1].stem))

\* how a run of main ends, the calls it made, and the files it left
Ended(how, calls, files) == [outcome |-> how, calls |-> calls, files |-> files]

\* the part of main behind infer_collection_type
MainFrom(fs, kind, a) ==
    LET named == a.name # <<>> /\ a.name[1] # <<>>
        readable == \A i \in 1..Len(fs) : fs[i].opens
        base == IF named THEN a.name[1]
                ELSE IF ~a.fonttools THEN FallbackWithoutTools(fs)
                ELSE derive_collection_basename(fs)
        out_path == sanitize_filename(base) \o <<".">> \o kind
        derive == IF named THEN <<>> ELSE <<"derive_collection_basename">>
        w == write_collection(sort_fonts(fs), out_path, kind, a.fonttools, a.saves)
    IN  IF ~named /\ a.fonttools /\ ~readable
        THEN Ended(RaisedOut("TTLibError"), <<"infer_collection_type">> \o derive, <<>>)
        ELSE IF ~a.fonttools
        THEN Ended(RaisedOut("RuntimeError"),
                   <<"infer_collection_type">> \o derive \o <<"sort_fonts">>, <<>>)
        ELSE IF ~readable
        THEN Ended(RaisedOut("TTLibError"),
                   <<"infer_collection_type">> \o derive \o <<"sort_fonts">>, <<>>)
        ELSE IF a.dry_run
        THEN Ended(ReturnedStatus(0),
                   <<"infer_collection_type">> \o derive \o <<"sort_fonts">>, <<>>)
        ELSE Ended(IF w.state = "ok" THEN ReturnedStatus(0)
                   ELSE IF w.exc = "RuntimeError" THEN ReturnedStatus(2)
                   ELSE RaisedOut(w.exc),
                   <<"infer_collection_type">> \o derive
                       \o <<"sort_fonts", "write_collection">>,
                   w.files)

\* createcollection's main over the discovered fonts fs with the options a
CollectionMain(fs, a) ==
    IF fs = <<>> THEN Ended(ReturnedStatus(1), <<>>, <<>>)
    ELSE LET kind == infer_collection_type([i \in 1..Len(fs) |-> fs[i].head], a.type)
         IN  IF kind.state = "raised"
             THEN Ended(ReturnedStatus(1), <<"infer_collection_type">>, <<>>)
             ELSE MainFrom(fs, kind.type, a)

(***************************************************************************)
(* nameadjust.py and weightadjust.py: the rewrite of a font's identity.    *)
(* A name record is keyed by its nameID and its platform: "windows" is     *)
(* (3, 1, 0x409), "mac" is (1, 0, 0).                                      *)
(***************************************************************************)
\* name_tbl.setName(text, nid, ...): the first record of that key gets the
\* text, a new record is appended when there is none
SetName(tbl, text, nid, plat) ==
    LET hits == {i \in 1..Len(tbl) : tbl[i].nameID = nid /\ tbl[i].platform = plat}
    IN  IF hits = {} THEN Append(tbl, NameRecord(nid, plat, Some(text)))
        ELSE [tbl EXCEPT ![CHOOSE i \in hits : \A j \in hits : i <= j].text = Some(text)]

RECURSIVE SetNames(_, _)
\* the calls of setName, in order
SetNames(tbl, calls) ==
    IF calls = <<>> THEN tbl
    ELSE SetNames(SetName(tbl, calls[1].text[1], calls[1].nameID, calls[1].platform),
                  Tail(calls))

\* _PS_ALLOWED.sub("", s.replace(" ", ""))
PsPart(s) == SelectSeq(s, LAMBDA c : IsAlpha(c) \/ IsDigit(c) \/ c = "-")

ps_name(family, subfamily) ==
    IF PsPart(subfamily) # <<>> THEN PsPart(family) \o <<"-">> \o PsPart(subfamily)
    ELSE PsPart(family)

\* the setName calls of rewrite_name_table for one platform
IdentityCalls(plat, family, subfamily) ==
    <<NameRecord(16, plat, Some(family)),
      NameRecord(17, plat, Some(subfamily)),
      NameRecord(1, plat, Some(family)),
      NameRecord(2, plat, Some(subfamily)),
      NameRecord(4, plat, Some(Strip(family \o <<" ">> \o subfamily))),
      NameRecord(6, plat, Some(ps_name(family, subfamily)))>>

RECURSIVE Pow2(_)
Pow2(n) == IF n = 0 THEN 1 ELSE 2 * Pow2(n - 1)

HasBit(val, bit) == (val \div Pow2(bit)) % 2 = 1

\* _set_bit(val, bit, on)
SetBit(val, bit, on) ==
    IF on THEN (IF HasBit(val, bit) THEN val ELSE val + Pow2(bit))
    ELSE (IF HasBit(val, bit) THEN val - Pow2(bit) ELSE val)

\* is_bold_style of rewrite_name_table
IsBoldStyle(subfamily) ==
    /\ Contains(<<" ">> \o Lower(subfamily), <<" ", "b", "o", "l", "d">>)
    /\ ~Contains(Lower(subfamily), <<"e", "x", "t", "r", "a", " ", "b", "o", "l", "d">>)

\* rewrite_name_table: the setName calls it makes and the font it saves
rewrite_name_table(font, family, subfamily) ==
    LET st == _infer_weight_and_italic_from_subfamily(
                  IF subfamily # <<>> THEN subfamily ELSE Regular)
        calls == IdentityCalls("windows", family, subfamily)
                    \o IdentityCalls("mac", family, subfamily)
        is_regular_upright == Lower(subfamily) = Lower(Regular) /\ ~st.italic
    IN  [calls |-> calls,
         saved |->
           [font EXCEPT
              !.names = SetNames(font.names, calls),
              !.os2 = IF font.os2 = <<>> THEN <<>>
                      ELSE Some([usWeightClass |-> st.weight[1],
                                 fsSelection |->
                                    SetBit(SetBit(SetBit(font.os2[1].fsSelection,
                                                         0, st.italic),
                                                  5, IsBoldStyle(subfamily)),
                                           6, is_regular_upright)]),
              !.head = IF font.head = <<>> THEN <<>>
                       ELSE Some([macStyle |->
                                    SetBit(SetBit(font.head[1].macStyle,
                                                  0, IsBoldStyle(subfamily)),
                                           1, st.italic)])]]

RECURSIVE FirstFamily(_)
\* the family _rewrite_internal_names finds: the first readable, non-empty
\* record of nameID 1, whatever its platform
FirstFamily(names) ==
    IF names = <<>> THEN <<>>
    ELSE IF names[1].nameID = 1 /\ names[1].text # <<>> /\ names[1].text[1] # <<>>
    THEN names[1].text
    ELSE FirstFamily(Tail(names))

RemoveSpaces(s) == SelectSeq(s, LAMBDA c : c # " ")

\* the setName calls of _rewrite_internal_names for one platform
InternalCalls(plat, family, subfamily) ==
    <<NameRecord(1, plat, Some(family)),
      NameRecord(2, plat, Some(subfamily)),
      NameRecord(4, plat, Some(Strip(family \o <<" ">> \o subfamily))),
      NameRecord(6, plat, Some(RemoveSpaces(family) \o <<"-">> \o RemoveSpaces(subfamily)))>>

\* _rewrite_internal_names: the setName calls it makes and the font it saves
_rewrite_internal_names(font, weight_name, resolved_weight, off) ==
    LET family == IF FirstFamily(font.names) # <<>> THEN FirstFamily(font.names)[1]
                  ELSE font.stem
        subfamily == IF off = 0 THEN weight_name
                     ELSE weight_name \o <<"-">> \o _weight_for_filename(resolved_weight)
        calls == InternalCalls("windows", family, subfamily)
                    \o InternalCalls("mac", family, subfamily)
    IN  [calls |-> calls, saved |-> [font EXCEPT !.names = SetNames(font.names, calls)]]

(***************************************************************************)
(* The configuration files the model reads.                                *)
(***************************************************************************)
CanonNames == {<<"A">>, <<"a">>, <<"a", "-", "b">>}

AliasKeys == {<<"a", " ", "b">>, <<"A", "-", "B">>, <<"B">>}

IntVal(n) == [type |-> "int", v |-> n]

\* TOML values of a [weights] entry: integers, true, "100", 1.5
WeightVals ==
    {IntVal(100), IntVal(200), [type |-> "bool", v |-> 1],
     [type |-> "str", v |-> 100], [type |-> "float", v |-> 1]}

\* TOML values of an [aliases] entry: a name, or the integer 12 (its digits kept)
AliasVals ==
    {[type |-> "str", v |-> c] : c \in CanonNames} \cup {[type |-> "int", v |-> <<"1", "2">>]}

\* TOML tables: no key twice
Tables(keys, vals, n) ==
    {t \in Str([k : keys, v : vals], n) :
        \A i, j \in 1..Len(t) : i # j => t[i].k # t[j].k}

Absent == [kind |-> "absent", truthy |-> FALSE, entries |-> <<>>]

Scalar(b) == [kind |-> "scalar", truthy |-> b, entries |-> <<>>]

Table(t) == [kind |-> "table", truthy |-> t # <<>>, entries |-> t]

WeightsValues ==
    {Absent, Scalar(TRUE)} \cup {Table(t) : t \in Tables(CanonNames, WeightVals, MaxWeights)}

AliasesValues ==
    {Absent, Scalar(TRUE), Scalar(FALSE)}
        \cup {Table(t) : t \in Tables(AliasKeys, AliasVals, MaxAliases)}

NoFile == [exists |-> FALSE, parses |-> FALSE, weights |-> Absent, aliases |-> Absent]

BadFile == [exists |-> TRUE, parses |-> FALSE, weights |-> Absent, aliases |-> Absent]

\* every file load_config may find
IsConfigFile(f) ==
    \/ f \in {NoFile, BadFile}
    \/ \E w \in WeightsValues, a \in AliasesValues :
          f = [exists |-> TRUE, parses |-> TRUE, weights |-> w, aliases |-> a]

NotLoaded == [state |-> "none"]

NotSorted == <<>>

(***************************************************************************)
(* SpecFW: load_config, then standard_weights, over every configuration    *)
(* file.                                                                   *)
(***************************************************************************)
PhraseIdle == phrase0 = <<>> /\ phrase = <<>>

NamesIdle == stem = <<>> /\ human = <<>> /\ split = <<>> /\ clean = <<>>

NoNames == [family |-> <<>>, subfamily |-> <<>>]

StyleIdle == emb = NoNames /\ ccStyle = <<>> /\ naStyle = <<>>

FWIdle == config = NoFile /\ loaded = NotLoaded /\ ladder = NotSorted

StripIdle == tokenIn = <<>> /\ stripped = <<>>

BaseIdle == fonts = <<>> /\ basename = <<>>

SaneIdle == rawName = <<>> /\ sane = <<>>

TypeIdle == headers = <<>> /\ forced = <<>> /\ ctype = [state |-> "none"]

SortIdle == sortOut = <<>> /\ firstOut = <<>>

LadderIdle ==
    /\ rng = <<>>
    /\ offset = 0
    /\ todo = [state |-> "none"]
    /\ attempts = <<>>
    /\ created = <<>>

Running == [state |-> "running"]

\* no main has been started and nothing has been saved
NoArgs == [state |-> "none"]

MainIdle ==
    /\ discovered = <<>>
    /\ visited = <<>>
    /\ outcome = Running
    /\ written = <<>>
    /\ args = NoArgs

\* the collection and weight-ladder tools have not been started
CollIdle == StripIdle /\ BaseIdle /\ SaneIdle /\ TypeIdle /\ SortIdle /\ LadderIdle

collVars == <<stripVars, baseVars, saneVars, typeVars, sortVars, ladderVars>>

InitFW ==
    /\ MainIdle
    /\ IsConfigFile(config)
    /\ loaded = NotLoaded
    /\ ladder = NotSorted
    /\ PhraseIdle
    /\ NamesIdle
    /\ StyleIdle
    /\ CollIdle

LoadConfig ==
    /\ loaded = NotLoaded
    /\ loaded' = load_config(config)
    /\ UNCHANGED <<mainVars, config, ladder, phraseVars, nameVars, styleVars, collVars>>

StandardWeights ==
    /\ loaded.state = "ok"
    /\ ladder = NotSorted
    /\ ladder' = standard_weights(loaded)
    /\ UNCHANGED <<mainVars, config, loaded, phraseVars, nameVars, styleVars, collVars>>

NextFW == LoadConfig \/ StandardWeights

SpecFW == InitFW /\ [][NextFW]_vars

(***************************************************************************)
(* SpecPhrase: a vocabulary is loaded and a phrase is looked up under      *)
(* every respelling of it.                                                 *)
(***************************************************************************)
PhraseChars == {"a", "A", "b", " ", "-"}

Separators == {" ", "-"}

WeightsAB ==
    Table(<<[k |-> <<"A">>, v |-> IntVal(100)], [k |-> <<"a", "-", "b">>, v |-> IntVal(200)]>>)

AliasesB == Table(<<[k |-> <<"B">>, v |-> [type |-> "str", v |-> <<"a", "-", "b">>]]>>)

AliasesAB == Table(<<[k |-> <<"b", " ", "A">>, v |-> [type |-> "str", v |-> <<"A">>]]>>)

PhraseFiles ==
    {[exists |-> TRUE, parses |-> TRUE, weights |-> WeightsAB, aliases |-> a] :
        a \in {Absent, AliasesB, AliasesAB}}

InitPhrase ==
    /\ MainIdle
    /\ config \in PhraseFiles
    /\ loaded = NotLoaded
    /\ ladder = NotSorted
    /\ phrase0 \in Str(PhraseChars, MaxPhraseLen)
    /\ phrase = phrase0
    /\ NamesIdle
    /\ StyleIdle
    /\ CollIdle

SwapCaseChar(c) == IF IsUpper(c) THEN LowerChar(c) ELSE UpperChar(c)

\* one letter changes case
SwapCase ==
    /\ loaded.state = "ok"
    /\ \E i \in 1..Len(phrase) :
          /\ IsAlpha(phrase[i])
          /\ phrase' = [phrase EXCEPT ![i] = SwapCaseChar(phrase[i])]
    /\ UNCHANGED <<mainVars, fwVars, phrase0, nameVars, styleVars, collVars>>

\* a hyphen becomes a space, or a space a hyphen
SwapSeparator ==
    /\ loaded.state = "ok"
    /\ \E i \in 1..Len(phrase) :
          /\ phrase[i] \in Separators
          /\ phrase' = [phrase EXCEPT ![i] = IF phrase[i] = " " THEN "-" ELSE " "]
    /\ UNCHANGED <<mainVars, fwVars, phrase0, nameVars, styleVars, collVars>>

\* position i of s is beside a separator or at an end of s
BesideSeparator(s, i) ==
    IF i = 1 \/ i = Len(s) + 1 THEN TRUE
    ELSE s[i - 1] \in Separators \/ s[i] \in Separators

\* one more separator character between or around the words
AddSeparator ==
    /\ loaded.state = "ok"
    /\ Len(phrase) < MaxPhraseLen
    /\ \E i \in 1..(Len(phrase) + 1), c \in Separators :
          /\ BesideSeparator(phrase, i)
          /\ phrase' = SubSeq(phrase, 1, i - 1) \o <<c>> \o SubSeq(phrase, i, Len(phrase))
    /\ UNCHANGED <<mainVars, fwVars, phrase0, nameVars, styleVars, collVars>>

\* one separator character fewer where another one, or an end, is beside it
DropSeparator ==
    /\ loaded.state = "ok"
    /\ \E i \in 1..Len(phrase) :
          /\ phrase[i] \in Separators
          /\ IF i = 1 \/ i = Len(phrase) THEN TRUE
             ELSE phrase[i - 1] \in Separators \/ phrase[i + 1] \in Separators
          /\ phrase' = SubSeq(phrase, 1, i - 1) \o SubSeq(phrase, i + 1, Len(phrase))
    /\ UNCHANGED <<mainVars, fwVars, phrase0, nameVars, styleVars, collVars>>

NextPhrase == LoadConfig \/ SwapCase \/ SwapSeparator \/ AddSeparator \/ DropSeparator

SpecPhrase == InitPhrase /\ [][NextPhrase]_vars


(***************************************************************************)
(* SpecNames: process_font's naming steps over every stem: humanize_stem,  *)
(* split_family_subfamily, make_clean_stem.  nameadjust never loads the    *)
(* weight vocabulary; the fontweights.toml of its working directory is the *)
(* one of tests/test_nameadjust_fontweights.py.                            *)
(***************************************************************************)
StemChars == {"a", "B", "v", "F", "1", ".", "-", "_", " "}

StemWords ==
    {<<"c", "o", "o", "l">>,
     <<"e", "x", "t", "r", "a">>,
     <<"u", "l", "t", "r", "a">>,
     <<"l", "i", "g", "h", "t">>,
     <<"b", "o", "l", "d">>,
     <<"i", "t", "a", "l", "i", "c">>}

StemsOfWords == {Join(ws, <<"-">>) : ws \in Str(StemWords, MaxStemWords)}

Stems == Str(StemChars, MaxStemLen) \cup StemsOfWords

NamesWeights ==
    Table(<<[k |-> <<"T", "h", "i", "n">>, v |-> IntVal(100)],
            [k |-> <<"E", "x", "t", "r", "a", "-", "L", "i", "g", "h", "t">>,
             v |-> IntVal(200)],
            [k |-> <<"R", "e", "g", "u", "l", "a", "r">>, v |-> IntVal(400)]>>)

NamesAliases ==
    Table(<<[k |-> <<"U", "l", "t", "r", "a", " ", "L", "i", "g", "h", "t">>,
             v |-> [type |-> "str",
                    v |-> <<"E", "x", "t", "r", "a", "-", "L", "i", "g", "h", "t">>]]>>)

NamesFile ==
    [exists |-> TRUE, parses |-> TRUE, weights |-> NamesWeights, aliases |-> NamesAliases]

InitNames ==
    /\ MainIdle
    /\ config = NamesFile
    /\ loaded = NotLoaded
    /\ ladder = NotSorted
    /\ PhraseIdle
    /\ stem \in Stems
    /\ human = <<>>
    /\ split = <<>>
    /\ clean = <<>>
    /\ StyleIdle
    /\ CollIdle

Humanize ==
    /\ human = <<>>
    /\ human' = Some(humanize_stem(stem))
    /\ UNCHANGED <<mainVars, fwVars, phraseVars, styleVars, collVars, stem, split, clean>>

Split ==
    /\ human # <<>>
    /\ split = <<>>
    /\ split' = Some(split_family_subfamily(human[1]))
    /\ UNCHANGED <<mainVars, fwVars, phraseVars, styleVars, collVars, stem, human, clean>>

MakeCleanStem ==
    /\ split # <<>>
    /\ clean = <<>>
    /\ clean' = Some(make_clean_stem(split[1].family, split[1].subfamily))
    /\ UNCHANGED <<mainVars, fwVars, phraseVars, styleVars, collVars, stem, human, split>>

NextNames == Humanize \/ Split \/ MakeCleanStem

SpecNames == InitNames /\ [][NextNames]_vars

(***************************************************************************)
(* SpecStyle: the weight and the italic flag of one font, from its         *)
(* embedded names and its filename stem (createcollection's sort key) and  *)
(* from its subfamily (nameadjust's OS/2 weight class).                    *)
(***************************************************************************)
StyleWords ==
    {<<"E", "x", "t", "r", "a">>,
     <<"U", "l", "t", "r", "a">>,
     <<"S", "e", "m", "i">>,
     <<"L", "i", "g", "h", "t">>,
     <<"B", "o", "l", "d">>,
     <<"I", "t", "a", "l", "i", "c">>}

RECURSIVE Glued(_, _)
\* the words ws joined by the separators seps, seps[i] between ws[i] and ws[i+1]
Glued(ws, seps) ==
    IF Len(ws) <= 1 THEN Join(ws, <<>>)
    ELSE ws[1] \o seps[1] \o Glued(Tail(ws), Tail(seps))

\* one to MaxStyleWords words, each two spaced ("Extra Bold") or joined ("ExtraBold")
StylePhrases ==
    {Glued(ws, seps) :
        <<ws, seps>> \in UNION {[1..n -> StyleWords] \X [1..(n - 1) -> {<<>>, <<" ">>}] :
                                   n \in 1..MaxStyleWords}}

Subfamilies == {<<>>, Some(<<>>)} \cup {Some(ph) : ph \in StylePhrases}

Families == {<<>>, Some(<<"C", "o", "o", "l">>),
             Some(<<"C", "o", "o", "l", " ", "L", "i", "g", "h", "t", " ", "O", "b", "l", "i", "q", "u", "e">>)}

StyleStems == {<<"C", "o", "o", "l", "-", "E", "x", "t", "r", "a", "-", "B", "o", "l", "d", "-", "I", "t", "a", "l", "i", "c">>,
               <<"c", "o", "o", "l", "_", "s", "e", "m", "i", "b", "o", "l", "d">>}

InitStyle ==
    /\ MainIdle
    /\ config = NoFile
    /\ loaded = NotLoaded
    /\ ladder = NotSorted
    /\ PhraseIdle
    /\ stem \in StyleStems
    /\ human = <<>>
    /\ split = <<>>
    /\ clean = <<>>
    /\ emb \in [family : Families, subfamily : Subfamilies]
    /\ ccStyle = <<>>
    /\ naStyle = <<>>
    /\ CollIdle

\* sort_fonts' call for one font
WeightAndStyleFromNames ==
    /\ ccStyle = <<>>
    /\ ccStyle' = Some(weight_and_style_from_names(emb.family, emb.subfamily, stem))
    /\ UNCHANGED <<mainVars, fwVars, phraseVars, nameVars, collVars, emb, naStyle>>

\* rewrite_name_table's call, subfamily being a str
InferWeightAndItalicFromSubfamily ==
    /\ naStyle = <<>>
    /\ emb.subfamily # <<>>
    /\ naStyle' = Some(_infer_weight_and_italic_from_subfamily(emb.subfamily[1]))
    /\ UNCHANGED <<mainVars, fwVars, phraseVars, nameVars, collVars, emb, ccStyle>>

NextStyle == WeightAndStyleFromNames \/ InferWeightAndItalicFromSubfamily

SpecStyle == InitStyle /\ [][NextStyle]_vars

(***************************************************************************)
(* SpecStrip: strip_style_tokens over the token lists of filename stems.   *)
(***************************************************************************)
StripTokens ==
    {<<"c", "o", "o", "l">>, <<"e", "x", "t", "r", "a">>, <<"l", "i", "g", "h", "t">>, <<"b", "o", "l", "d">>, <<"r", "e", "g", "u", "l", "a", "r">>, <<"i", "t", "a", "l", "i", "c">>, <<"v", "f">>, <<"v", "1">>}

InitStrip ==
    /\ MainIdle
    /\ FWIdle /\ PhraseIdle /\ NamesIdle /\ StyleIdle
    /\ tokenIn \in Str(StripTokens, MaxTokens)
    /\ stripped = <<>>
    /\ BaseIdle /\ SaneIdle /\ TypeIdle /\ SortIdle /\ LadderIdle

StripStyleTokens ==
    /\ stripped = <<>>
    /\ stripped' = Some(strip_style_tokens(tokenIn))
    /\ UNCHANGED <<mainVars, fwVars, phraseVars, nameVars, styleVars, tokenIn, baseVars,
                   saneVars, typeVars, sortVars, ladderVars>>

NextStrip == StripStyleTokens

SpecStrip == InitStrip /\ [][NextStrip]_vars

(***************************************************************************)
(* SpecBase: derive_collection_basename over lists of font files, each a   *)
(* name table, the name of its parent directory and its filename stem.     *)
(***************************************************************************)
NameTables ==
    {<<>>,
     <<NameRecord(1, "windows", Some(<<"C", "o", "o", "l", " ", "F", "a", "m", "i", "l", "y">>)),
       NameRecord(2, "windows", Some(<<"R", "e", "g", "u", "l", "a", "r">>))>>,
     <<NameRecord(1, "other", Some(<<"O", "t", "h", "e", "r">>)),
       NameRecord(1, "mac", Some(<<" ", "C", "o", "o", "l", " ", " ", "F", "a", "m", "i", "l", "y", " ">>)),
       NameRecord(2, "mac", Some(<<"B", "o", "l", "d">>))>>,
     <<NameRecord(1, "windows", <<>>),
       NameRecord(1, "mac", Some(<<"O", "t", "h", "e", "r">>))>>,
     <<NameRecord(1, "windows", Some(<<" ", " ">>))>>}

FilePaths ==
    {[dir |-> <<"f", "o", "n", "t", "s">>, stem |-> <<"M", "y", "F", "o", "n", "t", "-", "0", "9", "0", "2", "-", "R", "e", "g", "u", "l", "a", "r">>],
     [dir |-> <<"f", "o", "n", "t", "s">>, stem |-> <<"M", "y", "F", "o", "n", "t", "-", "0", "9", "0", "2", "-", "B", "o", "l", "d">>],
     [dir |-> <<>>, stem |-> <<"m", "y", "f", "o", "n", "t", "_", "E", "x", "t", "r", "a", "-", "L", "i", "g", "h", "t">>],
     [dir |-> <<"M", "y", " ", "F", "o", "n", "t", "s", "!">>, stem |-> <<"B", "o", "l", "d", "-", "I", "t", "a", "l", "i", "c">>],
     [dir |-> <<>>, stem |-> <<"R", "e", "g", "u", "l", "a", "r">>],
     [dir |-> <<"f", "o", "n", "t", "s">>, stem |-> <<"M", "y", " ", "F", "o", "n", "t", "-", "v", "1">>],
     [dir |-> <<"f", "o", "n", "t", "s">>, stem |-> <<"E", "x", "t", "r", "a", "-", "l", "i", "g", "h", "t", "-", "E", "X", "T", "R", "A", "-", "S", "a", "n", "s">>]}

FontFiles ==
    {[names |-> n, dir |-> p.dir, stem |-> p.stem] : n \in NameTables, p \in FilePaths}

InitBase ==
    /\ MainIdle
    /\ FWIdle /\ PhraseIdle /\ NamesIdle /\ StyleIdle /\ StripIdle
    /\ \E n \in 1..MaxFonts : fonts \in [1..n -> FontFiles]
    /\ basename = <<>>
    /\ SaneIdle /\ TypeIdle /\ SortIdle /\ LadderIdle

DeriveCollectionBasename ==
    /\ basename = <<>>
    /\ basename' = Some(derive_collection_basename(fonts))
    /\ UNCHANGED <<mainVars, fwVars, phraseVars, nameVars, styleVars, stripVars, fonts,
                   saneVars, typeVars, sortVars, ladderVars>>

NextBase == DeriveCollectionBasename

SpecBase == InitBase /\ [][NextBase]_vars

(***************************************************************************)
(* SpecSanitize: sanitize_filename applied to a name, then to its result.  *)
(***************************************************************************)
NameChars == {"a", "1", " ", "!", "_", "-", "."}

InitSanitize ==
    /\ MainIdle
    /\ FWIdle /\ PhraseIdle /\ NamesIdle /\ StyleIdle /\ StripIdle /\ BaseIdle
    /\ rawName \in Str(NameChars, MaxNameLen)
    /\ sane = <<>>
    /\ TypeIdle /\ SortIdle /\ LadderIdle

SanitizeFilename ==
    /\ sane = <<>>
    /\ sane' = <<sanitize_filename(rawName)>>
    /\ UNCHANGED <<mainVars, fwVars, phraseVars, nameVars, styleVars, stripVars, baseVars,
                   rawName, typeVars, sortVars, ladderVars>>

SanitizeAgain ==
    /\ Len(sane) = 1
    /\ sane' = Append(sane, sanitize_filename(sane[1]))
    /\ UNCHANGED <<mainVars, fwVars, phraseVars, nameVars, styleVars, stripVars, baseVars,
                   rawName, typeVars, sortVars, ladderVars>>

NextSanitize == SanitizeFilename \/ SanitizeAgain

SpecSanitize == InitSanitize /\ [][NextSanitize]_vars

(***************************************************************************)
(* SpecType: infer_collection_type over the headers of the input files and *)
(* the forced type.                                                        *)
(***************************************************************************)
Headers == {OTTO, TrueType1, TrueTag, WOFF, ShortFile}

ForcedTypes == {<<>>, Some(<<>>), Some(TTC), Some(OTC), Some(<<"T", "T", "C">>), Some(<<"z", "i", "p">>)}

InitType ==
    /\ MainIdle
    /\ FWIdle /\ PhraseIdle /\ NamesIdle /\ StyleIdle /\ StripIdle /\ BaseIdle /\ SaneIdle
    /\ headers \in Str(Headers, MaxInputs)
    /\ forced \in ForcedTypes
    /\ ctype = [state |-> "none"]
    /\ SortIdle /\ LadderIdle

InferCollectionType ==
    /\ ctype.state = "none"
    /\ ctype' = infer_collection_type(headers, forced)
    /\ UNCHANGED <<mainVars, fwVars, phraseVars, nameVars, styleVars, stripVars, baseVars,
                   saneVars, headers, forced, sortVars, ladderVars>>

NextType == InferCollectionType

SpecType == InitType /\ [][NextType]_vars

(***************************************************************************)
(* SpecSort: sort_fonts over the orderings of a set of distinct font       *)
(* files; Reorder hands the same files over in another order, as another   *)
(* run of discover_fonts may.                                              *)
(***************************************************************************)
NoNameTable == <<>>

ZedNames ==
    <<NameRecord(1, "windows", Some(<<"Z", "e", "d">>)),
      NameRecord(2, "windows", Some(<<"L", "i", "g", "h", "t", " ", "I", "t", "a", "l", "i", "c">>))>>

FontFile(names, dir, st, suffix) ==
    [names |-> names, dir |-> dir, stem |-> st, suffix |-> suffix]

SortFiles ==
    {FontFile(NoNameTable, <<"a">>, <<"A", "-", "R", "e", "g", "u", "l", "a", "r">>, <<".", "t", "t", "f">>),
     FontFile(NoNameTable, <<"b">>, <<"A", "-", "R", "e", "g", "u", "l", "a", "r">>, <<".", "t", "t", "f">>),
     FontFile(NoNameTable, <<"a">>, <<"A", "-", "B", "o", "l", "d">>, <<".", "t", "t", "f">>),
     FontFile(NoNameTable, <<"a">>, <<"A", "-", "R", "e", "g", "u", "l", "a", "r", "-", "I", "t", "a", "l", "i", "c">>, <<".", "t", "t", "f">>),
     FontFile(NoNameTable, <<"a">>, <<"M", "y", "s", "t", "e", "r", "y">>, <<".", "o", "t", "f">>),
     FontFile(ZedNames, <<"a">>, <<"Z", "e", "d">>, <<".", "t", "t", "f">>),
     FontFile(NoNameTable, <<"a">>, <<"b", "-", "b", "l", "a", "c", "k">>, <<".", "T", "T", "F">>)}

\* the lists of distinct files
Orderings(files, n) ==
    {fs \in [1..n -> files] : \A i, j \in 1..n : i # j => fs[i] # fs[j]}

InitSort ==
    /\ MainIdle
    /\ FWIdle /\ PhraseIdle /\ NamesIdle /\ StyleIdle /\ StripIdle /\ SaneIdle /\ TypeIdle
    /\ \E n \in 1..MaxSorted : fonts \in Orderings(SortFiles, n)
    /\ basename = <<>>
    /\ sortOut = <<>>
    /\ firstOut = <<>>
    /\ LadderIdle

SortFonts ==
    /\ sortOut = <<>>
    /\ sortOut' = Some(sort_fonts(fonts))
    /\ firstOut' = IF firstOut = <<>> THEN Some(sort_fonts(fonts)) ELSE firstOut
    /\ UNCHANGED <<mainVars, fwVars, phraseVars, nameVars, styleVars, stripVars, baseVars,
                   saneVars, typeVars, ladderVars>>

Reorder ==
    /\ sortOut # <<>>
    /\ \E i \in 1..(Len(fonts) - 1) :
          fonts' = [fonts EXCEPT ![i] = fonts[i + 1], ![i + 1] = fonts[i]]
    /\ sortOut' = <<>>
    /\ UNCHANGED <<mainVars, fwVars, phraseVars, nameVars, styleVars, stripVars, basename,
                   saneVars, typeVars, firstOut, ladderVars>>

NextSort == SortFonts \/ Reorder

SpecSort == InitSort /\ [][NextSort]_vars

(***************************************************************************)
(* SpecLadder: process_font_all_weights over one variable font, one        *)
(* iteration of its loop per step, the mutator ending with any return      *)
(* code.                                                                   *)
(***************************************************************************)
WeightRows ==
    <<[k |-> <<"B", "o", "l", "d">>, v |-> IntVal(700)],
      [k |-> <<"T", "h", "i", "n">>, v |-> IntVal(100)],
      [k |-> <<"R", "e", "g", "u", "l", "a", "r">>, v |-> IntVal(400)],
      [k |-> <<"L", "i", "g", "h", "t">>, v |-> IntVal(300)],
      [k |-> <<"B", "l", "a", "c", "k">>, v |-> IntVal(900)]>>

\* two canonical names, one being the other followed by a hyphen
HyphenRows ==
    <<[k |-> <<"T", "h", "i", "n">>, v |-> IntVal(100)],
      [k |-> <<"T", "h", "i", "n", "-">>, v |-> IntVal(200)]>>

HyphenFile ==
    [exists |-> TRUE, parses |-> TRUE, weights |-> Table(HyphenRows), aliases |-> Absent]

LadderFiles ==
    {NoFile, HyphenFile} \cup
    {[exists |-> TRUE, parses |-> TRUE,
      weights |-> Table(SubSeq(WeightRows, 1, n)), aliases |-> Absent] :
        n \in 1..MaxLadder}

LadderStems == {<<"C", "o", "o", "l">>, <<"M", "y", "-", "V", "F">>}

Offsets ==
    {Float(0, 0), Float(10, 0), Float(12, 2), Float(0, 1), Float(-12, -2),
     Float(-150, 0), Float(600, 0)}

Ranges ==
    {<<>>,
     Some(<<Float(200, 0), Float(900, 0)>>),
     Some(<<Float(400, 0), Float(400, 0)>>),
     Some(<<Float(300, 2), Float(700, 3)>>),
     Some(<<Float(900, 0), Float(200, 0)>>)}

ReturnCodes == {0, 1}

InitLadder ==
    /\ MainIdle
    /\ config \in LadderFiles
    /\ loaded = NotLoaded
    /\ ladder = NotSorted
    /\ PhraseIdle /\ StyleIdle /\ StripIdle /\ BaseIdle /\ SaneIdle /\ TypeIdle /\ SortIdle
    /\ stem \in LadderStems
    /\ human = <<>> /\ split = <<>> /\ clean = <<>>
    /\ rng \in Ranges
    /\ offset \in Offsets
    /\ todo = [state |-> "none"]
    /\ attempts = <<>>
    /\ created = <<>>

\* rng = read_wght_range(font); cfg = load_config(); standard_weights(cfg)
ProcessFontAllWeights ==
    /\ todo.state = "none"
    /\ loaded' = load_config(config)
    /\ ladder' = IF loaded'.state = "ok" THEN standard_weights(loaded') ELSE NotSorted
    /\ todo' = IF loaded'.state = "ok"
               THEN [state |-> "run", left |-> standard_weights(loaded')]
               ELSE [state |-> "raised", left |-> <<>>]
    /\ UNCHANGED <<mainVars, config, phraseVars, nameVars, styleVars, stripVars, baseVars,
                   saneVars, typeVars, sortVars, rng, offset, attempts, created>>

\* one iteration of the loop over standard_weights(cfg); _rewrite_internal_names
\* succeeds or raises, and the output is appended in both cases
NextWeight ==
    /\ todo.state = "run"
    /\ todo.left # <<>>
    /\ \E rc \in ReturnCodes, rewritten \in BOOLEAN :
          LET base == todo.left[1][1]
              name == todo.left[1][2]
              target == Clamped(Float(base, 0) + offset, rng)
              out == compose_weight_basename([stem |-> stem], name, base, target, offset)
              p == adjust_font_weight([stem |-> stem], target, rng, out, rc)
          IN  /\ attempts' = Append(attempts,
                    [base |-> base, name |-> name, resolved |-> target,
                     basename |-> out, ran |-> p.ran, rc |-> rc,
                     renamed |-> p.state = "ok" /\ rewritten])
              /\ created' = IF p.state = "ok" THEN Append(created, p.path) ELSE created
    /\ todo' = [todo EXCEPT !.left = Tail(todo.left)]
    /\ UNCHANGED <<mainVars, fwVars, phraseVars, nameVars, styleVars, stripVars, baseVars,
                   saneVars, typeVars, sortVars, rng, offset>>

NextLadder == ProcessFontAllWeights \/ NextWeight

SpecLadder == InitLadder /\ [][NextLadder]_vars

(***************************************************************************)
(* SpecWeightMain: weightadjust's main over the discovered fonts, one font *)
(* per step; a font may be unreadable, the configuration missing, and any  *)
(* run of the mutator may fail.                                            *)
(***************************************************************************)
VariableFont(st, readable, r) == [stem |-> st, readable |-> readable, rng |-> r]

WeightFonts ==
    {VariableFont(st, k[1], k[2]) :
        st \in {<<"A">>, <<"B">>},
        k \in {<<TRUE, <<>>>>, <<TRUE, Some(<<Float(400, 0), Float(400, 0)>>)>>,
               <<FALSE, <<>>>>}}

TwoWeights ==
    [exists |-> TRUE, parses |-> TRUE,
     weights |-> Table(SubSeq(WeightRows, 1, 2)), aliases |-> Absent]

MainFiles == {NoFile, BadFile, TwoWeights}

MainOffsets == {Float(0, 0), Float(10, 0)}

\* the number of standard weights of a configuration file, 0 when it does not load
WeightsIn(file) ==
    IF load_config(file).state = "ok" THEN Len(standard_weights(load_config(file))) ELSE 0

InitWeightMain ==
    /\ config \in MainFiles
    /\ loaded = NotLoaded
    /\ ladder = NotSorted
    /\ PhraseIdle /\ NamesIdle /\ StyleIdle /\ StripIdle /\ BaseIdle /\ SaneIdle
    /\ TypeIdle /\ SortIdle
    /\ rng = <<>>
    /\ offset \in MainOffsets
    /\ todo = [state |-> "none"]
    /\ attempts = <<>>
    /\ created = <<>>
    /\ \E n \in 0..MaxBatch : discovered \in Orderings(WeightFonts, n)
    /\ visited = <<>>
    /\ outcome = Running
    /\ written = <<>>
    /\ args = NoArgs

\* if not fonts: return 1
WeightMainNoFonts ==
    /\ outcome = Running
    /\ discovered = <<>>
    /\ outcome' = ReturnedStatus(1)
    /\ UNCHANGED <<fwVars, phraseVars, nameVars, styleVars, collVars, discovered,
                   visited, written, args>>

\* one iteration of: for f in fonts: created = process_font_all_weights(...)
WeightMainFont ==
    /\ outcome = Running
    /\ Len(visited) < Len(discovered)
    /\ \E rcs \in [1..WeightsIn(config) -> ReturnCodes] :
          LET f == discovered[Len(visited) + 1]
              r == process_font_all_weights(f, offset, config, rcs)
          IN  IF r.state = "raised"
              THEN /\ visited' = Append(visited,
                         [font |-> f, state |-> "raised", created |-> <<>>,
                          rcs |-> <<>>, runs |-> 0])
                   /\ outcome' = RaisedOut(r.error)
                   /\ written' = written
              ELSE /\ visited' = Append(visited,
                         [font |-> f, state |-> "ok", created |-> r.created,
                          rcs |-> rcs, runs |-> r.runs])
                   /\ outcome' = outcome
                   /\ written' = written \o r.created
    /\ UNCHANGED <<fwVars, phraseVars, nameVars, styleVars, collVars, discovered, args>>

\* return 0 if total_failed_fonts == 0 else 2
WeightMainReturn ==
    /\ outcome = Running
    /\ discovered # <<>>
    /\ Len(visited) = Len(discovered)
    /\ outcome' = ReturnedStatus(ExitCodeOfFonts(visited))
    /\ UNCHANGED <<fwVars, phraseVars, nameVars, styleVars, collVars, discovered,
                   visited, written, args>>

NextWeightMain == WeightMainNoFonts \/ WeightMainFont \/ WeightMainReturn

SpecWeightMain == InitWeightMain /\ [][NextWeightMain]_vars

(***************************************************************************)
(* SpecColl: createcollection's main over the discovered fonts, and        *)
(* write_collection called for either container kind.                      *)
(***************************************************************************)
CollFile(names, st, suffix, head, opens) ==
    [names |-> names, dir |-> <<"a">>, stem |-> st, suffix |-> suffix,
     head |-> head, opens |-> opens]

CollFiles ==
    {CollFile(NoNameTable, <<"A", "-", "R", "e", "g", "u", "l", "a", "r">>, <<".", "t", "t", "f">>, TrueType1, TRUE),
     CollFile(NoNameTable, <<"A", "-", "B", "o", "l", "d">>, <<".", "t", "t", "f">>, TrueTag, TRUE),
     CollFile(NoNameTable, <<"A", "-", "B", "o", "l", "d">>, <<".", "o", "t", "f">>, OTTO, TRUE),
     CollFile(ZedNames, <<"Z", "e", "d">>, <<".", "o", "t", "f">>, OTTO, TRUE),
     CollFile(NoNameTable, <<"w", "e", "b">>, <<".", "t", "t", "f">>, WOFF, TRUE),
     CollFile(NoNameTable, <<"B", "r", "o", "k", "e", "n">>, <<".", "t", "t", "f">>, TrueType1, FALSE)}

\* discover_fonts returns the files sorted by their names
SortedByName(fs) ==
    \A i, j \in 1..Len(fs) : i < j => ~StrLess(FileName(fs[j]), FileName(fs[i]))

CollArgs ==
    [type : {<<>>, Some(TTC), Some(OTC)},
     name : {<<>>, Some(<<"M", "y", " ", "C", "o", "l", "l">>)},
     dry_run : BOOLEAN,
     fonttools : BOOLEAN,
     saves : {"ok", "fails", "breaks"}]

InitColl ==
    /\ FWIdle /\ PhraseIdle /\ NamesIdle /\ StyleIdle /\ CollIdle
    /\ \E n \in 0..MaxBatch :
          /\ discovered \in Orderings(CollFiles, n)
          /\ SortedByName(discovered)
    /\ args \in CollArgs
    /\ visited = <<>>
    /\ outcome = Running
    /\ written = <<>>

\* main(argv), from discover_fonts' result to its return
Main ==
    /\ outcome = Running
    /\ visited = <<>>
    /\ LET m == CollectionMain(discovered, args)
       IN  /\ visited' = m.calls
           /\ outcome' = m.outcome
           /\ written' = m.files
    /\ UNCHANGED <<fwVars, phraseVars, nameVars, styleVars, collVars, discovered, args>>

\* write_collection(fonts, out_path, kind), called with either kind
WriteCollection ==
    /\ outcome = Running
    /\ visited = <<>>
    /\ discovered # <<>>
    /\ \E kind \in {TTC, OTC} :
          LET w == write_collection(discovered, <<"o", "u", "t", ".">> \o kind, kind,
                                    args.fonttools, args.saves)
          IN  /\ visited' = <<"write_collection">>
              /\ outcome' = IF w.state = "ok" THEN [state |-> "done"]
                            ELSE RaisedOut(w.exc)
              /\ written' = w.files
    /\ UNCHANGED <<fwVars, phraseVars, nameVars, styleVars, collVars, discovered, args>>

NextColl == Main \/ WriteCollection

SpecColl == InitColl /\ [][NextColl]_vars

(***************************************************************************)
(* SpecRewrite: one font's identity is rewritten, by nameadjust's          *)
(* rewrite_name_table or by weightadjust's _rewrite_internal_names.        *)
(***************************************************************************)
OldNames ==
    <<NameRecord(1, "windows", Some(<<"O", "l", "d">>)),
      NameRecord(2, "windows", Some(<<"R", "e", "g", "u", "l", "a", "r">>)),
      NameRecord(16, "windows", Some(<<"O", "l", "d">>)),
      NameRecord(17, "windows", Some(<<"R", "e", "g", "u", "l", "a", "r">>))>>

MacNames ==
    <<NameRecord(1, "other", <<>>),
      NameRecord(1, "mac", Some(<<"M", "a", "c", " ", "F", "a", "m">>))>>

OS2(weight, fs) == Some([usWeightClass |-> weight, fsSelection |-> fs])

HeadTable(mac) == Some([macStyle |-> mac])

\* fsSelection 64 is REGULAR, 161 is ITALIC, BOLD and USE_TYPO_METRICS;
\* macStyle 3 is bold and italic; a font may lack either table
RewriteFonts ==
    [stem : {<<"C", "o", "o", "l", "-", "V", "F">>},
     names : {<<>>, OldNames, MacNames},
     os2 : {<<>>, OS2(400, 64), OS2(700, 161)},
     head : {<<>>, HeadTable(0), HeadTable(3)}]

NameArgs ==
    [tool : {"nameadjust"},
     family : {<<"C", "o", "o", "l">>, <<"M", "y", " ", "F", "o", "n", "t">>},
     subfamily : _STYLE_SET \cup {<<>>}]

WeightArgs ==
    [tool : {"weightadjust"},
     weight_name : {<<"B", "o", "l", "d">>, <<"E", "x", "t", "r", "a", " ", "L", "i", "g", "h", "t">>},
     resolved : {Float(700, 0), Float(712, 2)},
     offset : {Float(0, 0), Float(12, 2)}]

InitRewrite ==
    /\ FWIdle /\ PhraseIdle /\ NamesIdle /\ StyleIdle /\ CollIdle
    /\ \E f \in RewriteFonts : discovered = <<f>>
    /\ args \in NameArgs \cup WeightArgs
    /\ visited = <<>>
    /\ outcome = Running
    /\ written = <<>>

RewriteNameTable ==
    /\ outcome = Running
    /\ args.tool = "nameadjust"
    /\ LET r == rewrite_name_table(discovered[1], args.family, args.subfamily)
       IN  /\ visited' = r.calls
           /\ written' = <<r.saved>>
    /\ outcome' = [state |-> "done"]
    /\ UNCHANGED <<fwVars, phraseVars, nameVars, styleVars, collVars, discovered, args>>

RewriteInternalNames ==
    /\ outcome = Running
    /\ args.tool = "weightadjust"
    /\ LET r == _rewrite_internal_names(discovered[1], args.weight_name,
                                        args.resolved, args.offset)
       IN  /\ visited' = r.calls
           /\ written' = <<r.saved>>
    /\ outcome' = [state |-> "done"]
    /\ UNCHANGED <<fwVars, phraseVars, nameVars, styleVars, collVars, discovered, args>>

NextRewrite == RewriteNameTable \/ RewriteInternalNames

SpecRewrite == InitRewrite /\ [][NextRewrite]_vars

(***************************************************************************)
(* Claims on the weight vocabulary.                                        *)
(***************************************************************************)
Resolves(p) == canonical_name_for(loaded, p) # <<>>

WeightEntriesOf(f) == f.weights.entries

Declared(f) == {WeightEntriesOf(f)[i].k : i \in 1..Len(WeightEntriesOf(f))}

\* the file exists, parses and has a non-empty [weights] table of TOML integers
ValidWeights(f) ==
    /\ f.exists
    /\ f.parses
    /\ f.weights.kind = "table"
    /\ WeightEntriesOf(f) # <<>>
    /\ \A i \in 1..Len(WeightEntriesOf(f)) : WeightEntriesOf(f)[i].v.type = "int"

\* C2: load_config raises whenever the file is missing, unparseable, has no
\* [weights] table, a [weights] that is not a table, an empty one, or an entry
\* that is not an integer (a string, a float, a boolean); it succeeds only when
\* every [weights] value is an integer.
C2_RaisesUnlessAllIntegers ==
    loaded.state # "none" => (loaded.state = "ok" => ValidWeights(config))

AliasEntriesOf(f) == IF f.aliases.kind = "table" THEN f.aliases.entries ELSE <<>>

\* an alias entry the specification has dropped: a value that is no string, or a
\* target that is no key of [weights]
Dropped(f, e) == e.v.type # "str" \/ e.v.v \notin Declared(f)

DroppedCount(f) ==
    Cardinality({i \in 1..Len(AliasEntriesOf(f)) : Dropped(f, AliasEntriesOf(f)[i])})

Warned(e) == \E i \in 1..Len(loaded.warnings) : loaded.warnings[i].alias = e.k

ToDeclared(p) == \E c \in Declared(config) : canonical_name_for(loaded, p) = Some(c)

EveryRegisteredIsDeclared ==
    \A i \in 1..Len(loaded.normalized_to_canonical) :
        loaded.normalized_to_canonical[i].v \in Declared(config)

\* C3 as claimed: with a valid [weights] table the content of the [aliases]
\* table never makes load_config fail; a malformed or dangling alias is dropped
\* with a warning and its phrase resolves to absent, every other alias is
\* registered, and every registered phrase resolves to a declared canonical name.
C3_AliasesNeverFatal ==
    (loaded.state # "none" /\ ValidWeights(config) /\ config.aliases.kind # "scalar") =>
        /\ loaded.state = "ok"
        /\ Len(loaded.warnings) = DroppedCount(config)
        /\ \A i \in 1..Len(AliasEntriesOf(config)) :
              LET e == AliasEntriesOf(config)[i]
              IN  IF Dropped(config, e)
                  THEN Warned(e) /\ ~Resolves(e.k)
                  ELSE ToDeclared(e.k)
        /\ EveryRegisteredIsDeclared

\* the phrase of alias entry e is also the phrase of a canonical name or of an
\* alias that is not dropped
SharesPhrase(f, e) ==
    \/ \E c \in Declared(f) : _normalize_phrase(c) = _normalize_phrase(e.k)
    \/ \E j \in 1..Len(AliasEntriesOf(f)) :
          /\ ~Dropped(f, AliasEntriesOf(f)[j])
          /\ _normalize_phrase(AliasEntriesOf(f)[j].k) = _normalize_phrase(e.k)

\* C3 amended: with a valid [weights] table load_config fails only when aliases
\* is a non-empty value that is not a table; the entries of an [aliases] table
\* never make it fail: a malformed or dangling one is dropped with a warning,
\* every other one is registered, every registered phrase resolves to a declared
\* canonical name, and a dropped alias phrase resolves to absent unless a
\* canonical name or a registered alias has the same normalised phrase.
C3_AliasEntriesNeverFatal ==
    (loaded.state # "none" /\ ValidWeights(config)) =>
        IF config.aliases.kind = "scalar" /\ config.aliases.truthy
        THEN loaded.state = "raised"
        ELSE /\ loaded.state = "ok"
             /\ Len(loaded.warnings) = DroppedCount(config)
             /\ \A i \in 1..Len(AliasEntriesOf(config)) :
                   LET e == AliasEntriesOf(config)[i]
                   IN  IF Dropped(config, e)
                       THEN Warned(e) /\ (Resolves(e.k) => SharesPhrase(config, e))
                       ELSE ToDeclared(e.k)
             /\ EveryRegisteredIsDeclared

C3_Witness ==
    /\ loaded.state = "ok"
    /\ ValidWeights(config)
    /\ Len(loaded.warnings) = 1
    /\ Len(AliasEntriesOf(config)) = 2
    /\ \E i \in 1..2 :
          /\ Dropped(config, AliasEntriesOf(config)[i])
          /\ ~Resolves(AliasEntriesOf(config)[i].k)

DeclaredValue(f, c) ==
    WeightEntriesOf(f)[CHOOSE i \in 1..Len(WeightEntriesOf(f)) : WeightEntriesOf(f)[i].k = c].v.v

MapsToItself(c) ==
    /\ canonical_name_for(loaded, c) = Some(c)
    /\ lookup_value(loaded, c) = Some(DeclaredValue(config, c))

\* C4 as claimed: in every vocabulary load_config returns, each key c of
\* [weights] resolves to c and to the value declared for c, whatever aliases and
\* other canonical names are declared.
C4_CanonicalMapsToItself ==
    loaded.state = "ok" => \A c \in Declared(config) : MapsToItself(c)

\* a later [weights] key, or an alias that is not dropped and has another target,
\* has the normalised phrase of the [weights] key at index i
Overwritten(f, i) ==
    \/ \E j \in (i + 1)..Len(WeightEntriesOf(f)) :
          _normalize_phrase(WeightEntriesOf(f)[j].k) = _normalize_phrase(WeightEntriesOf(f)[i].k)
    \/ \E j \in 1..Len(AliasEntriesOf(f)) :
          /\ ~Dropped(f, AliasEntriesOf(f)[j])
          /\ AliasEntriesOf(f)[j].v.v # WeightEntriesOf(f)[i].k
          /\ _normalize_phrase(AliasEntriesOf(f)[j].k) = _normalize_phrase(WeightEntriesOf(f)[i].k)

\* C4 amended: each key c of [weights] resolves to c and to the value declared
\* for c unless a key declared after c, or a registered alias with another
\* target, has the same normalised phrase as c.
C4_CanonicalMapsToItselfUnlessOverwritten ==
    loaded.state = "ok" =>
        \A i \in 1..Len(WeightEntriesOf(config)) :
            ~Overwritten(config, i) => MapsToItself(WeightEntriesOf(config)[i].k)

C4_Witness ==
    /\ loaded.state = "ok"
    /\ Len(WeightEntriesOf(config)) = 2
    /\ Len(loaded.normalized_to_canonical) = 3
    /\ \A i \in 1..2 : ~Overwritten(config, i)
    /\ \E c \in Declared(config) : c # _normalize_phrase(c)

\* C5: standard_weights returns one (value, name) pair per entry of [weights]
\* and nothing else, in ascending order of value, entries of equal value in
\* ascending order of name.
C5_StandardWeightsSorted ==
    (loaded.state = "ok" /\ ladder # NotSorted) =>
        /\ Len(ladder) = Len(loaded.canonical_to_value)
        /\ {ladder[i] : i \in 1..Len(ladder)}
               = {<<DeclaredValue(config, c), c>> : c \in Declared(config)}
        /\ \A i, j \in 1..Len(ladder) :
              i < j =>
                  \/ ladder[i][1] < ladder[j][1]
                  \/ ladder[i][1] = ladder[j][1] /\ StrLess(ladder[i][2], ladder[j][2])

C5_Witness ==
    /\ Len(ladder) = 2
    /\ ladder[1][1] = ladder[2][1]
    /\ loaded.canonical_to_value[1].k = ladder[2][2]


(***************************************************************************)
(* Claims on nameadjust's naming steps.                                    *)
(***************************************************************************)
\* the space-separated tokens of the humanized string
HumanTokens == NonEmpty(SplitEach(human[1], {" "}))

\* the windows of one to three tokens that spell a recognised style phrase
Matches(toks) ==
    {m \in (1..Len(toks)) \X (1..Len(toks)) :
        /\ m[1] <= m[2]
        /\ m[2] - m[1] <= 2
        /\ Window(toks, m[1], m[2]) \in _STYLE_SET}

\* m ends at the rightmost token a match ends at and is the longest ending there
RightmostLongest(toks, m) ==
    /\ m \in Matches(toks)
    /\ \A o \in Matches(toks) : o[2] < m[2] \/ (o[2] = m[2] /\ o[1] >= m[1])

\* C6: the subfamily is the style phrase whose window ends at the rightmost
\* possible token and is the longest ending there, so it is always a recognised
\* style phrase or the default Regular; with no match the result is (the whole
\* humanized string, Regular), and ("", Regular) for the empty string.
C6_RightmostLongestStyle ==
    split # <<>> =>
        /\ split[1].subfamily \in _STYLE_SET \cup {Regular}
        /\ IF Matches(HumanTokens) = {}
           THEN split[1] = [family |-> human[1], subfamily |-> Regular]
           ELSE \E m \in Matches(HumanTokens) :
                   /\ RightmostLongest(HumanTokens, m)
                   /\ split[1].subfamily = Window(HumanTokens, m[1], m[2])
        /\ human[1] = <<>> => split[1] = [family |-> <<>>, subfamily |-> Regular]

C6_Witness ==
    /\ split # <<>>
    /\ Cardinality(Matches(HumanTokens)) >= 4
    /\ Len(HumanTokens) = 4
    /\ split[1].subfamily = Window(HumanTokens, 2, 4)

Best(toks) == CHOOSE m \in Matches(toks) : RightmostLongest(toks, m)

\* the tokens outside the matched window, in their order
Outside(toks) ==
    SubSeq(toks, 1, Best(toks)[1] - 1) \o SubSeq(toks, Best(toks)[2] + 1, Len(toks))

\* C7 as claimed: whenever a style phrase matches, also when the string is
\* nothing but a style phrase, the family is the space-join of the tokens
\* outside the matched window, in their order.
C7_FamilyIsTheRemainder ==
    (split # <<>> /\ Matches(HumanTokens) # {}) =>
        split[1].family = Join(Outside(HumanTokens), <<" ">>)

\* C7 amended: whenever a style phrase matches and a token lies outside the
\* matched window, the family is the space-join of the tokens outside it, in
\* their order; when the string is nothing but the style phrase, the family is
\* the whole humanized string.
C7_FamilyIsTheRemainderOrAll ==
    (split # <<>> /\ Matches(HumanTokens) # {}) =>
        split[1].family =
            IF Outside(HumanTokens) = <<>> THEN human[1]
            ELSE Join(Outside(HumanTokens), <<" ">>)

C7_Witness ==
    /\ split # <<>>
    /\ Matches(HumanTokens) # {}
    /\ Best(HumanTokens)[1] > 1
    /\ Best(HumanTokens)[2] < Len(HumanTokens)
    /\ split[1].family = Join(<<HumanTokens[1], HumanTokens[Len(HumanTokens)]>>, <<" ">>)

\* C8: a weight phrase the configuration declares as an alias, followed by
\* Italic, is a style phrase: for a humanized string that ends in it, the
\* subfamily is the whole alias phrase with Italic and the family is the rest.
C8_AliasPhraseIsAStyle ==
    split # <<>> =>
        \A i \in 1..Len(config.aliases.entries) :
            LET ap == SplitEach(config.aliases.entries[i].k, {" "}) \o <<Italic>>
                n == Len(HumanTokens)
            IN  (n > Len(ap) /\ SubSeq(HumanTokens, n - Len(ap) + 1, n) = ap) =>
                    /\ split[1].subfamily = Join(ap, <<" ">>)
                    /\ split[1].family = Join(SubSeq(HumanTokens, 1, n - Len(ap)), <<" ">>)

\* the hyphen/underscore-separated tokens of the stem
StemTokens == NonEmpty(ReSplit(stem, {"_", "-"}))

\* a token with its VF suffix removed is neither a VF marker nor version-like
Survives(t) == Lower(DropVFSuffix(t)) # VF /\ ~_is_version_token(DropVFSuffix(t))

Survivors == SelectSeq(StemTokens, Survives)

\* t with its first character upper-cased and the others lower-cased
FirstUpperRestLower(t) ==
    [i \in 1..Len(t) |-> IF i = 1 THEN UpperChar(t[i]) ELSE LowerChar(t[i])]

\* t with each letter that starts t or follows a non-letter upper-cased and each
\* letter that follows a letter lower-cased
LetterRunsCapitalized(t) ==
    [i \in 1..Len(t) |->
        IF i = 1 THEN UpperChar(t[i])
        ELSE IF IsAlpha(t[i - 1]) THEN LowerChar(t[i]) ELSE UpperChar(t[i])]

\* what the claim has token t emitted as, Cased being its rule for a token
\* without a lowercase-then-uppercase transition
Emitted(t, Cased(_)) == IF _is_camel_like(t) THEN t ELSE Cased(t)

\* the output is, stripped, the single-space join of one emitted token per
\* survivor, and no emitted token is version-like or a VF marker
EmitsPerToken(Cased(_)) ==
    LET out == [i \in 1..Len(Survivors) |-> Emitted(DropVFSuffix(Survivors[i]), Cased)]
    IN  /\ human[1] = Strip(Join(out, <<" ">>))
        /\ \A i \in 1..Len(out) : ~_is_version_token(out[i]) /\ Lower(out[i]) # VF

\* C10 as claimed: each hyphen/underscore-separated token is handled on its own:
\* a VF suffix is removed from longer tokens, a standalone VF token and every
\* version-like token are dropped, a surviving token with a lowercase-then-
\* uppercase transition is emitted verbatim and every other one with its first
\* character upper-cased and all the others lower-cased; the output is the
\* survivors joined by single spaces and holds no version-like or VF token.
C10_TokensFirstUpperRestLower == human # <<>> => EmitsPerToken(FirstUpperRestLower)

\* C10 amended: as claimed, but every other surviving token is emitted in
\* Python's title case: each letter that starts the token or follows a
\* non-letter is upper-cased, each letter that follows a letter is lower-cased.
C10_TokensTitleCased == human # <<>> => EmitsPerToken(LetterRunsCapitalized)

C10_Witness ==
    /\ human # <<>>
    /\ Len(StemTokens) = 2
    /\ Len(Survivors) = 1
    /\ \E i \in 2..Len(human[1]) : IsDigit(human[1][i - 1]) /\ IsUpper(human[1][i])

(***************************************************************************)
(* Claims on weight inference.                                             *)
(***************************************************************************)
\* the vocabulary entries that occur in a phrase, lower-cased and single-spaced
ContainedIn(ph) ==
    {i \in 1..Len(WEIGHT_MAP) : Contains(SingleSpaced(Lower(ph)), WEIGHT_MAP[i].k)}

\* a multi-word entry, spaced or joined: another entry is a proper part of it
MultiWord(i) ==
    \E j \in 1..Len(WEIGHT_MAP) :
        /\ j # i
        /\ Contains(WEIGHT_MAP[i].k, WEIGHT_MAP[j].k)

\* the weights of the longest entries a phrase contains
LongestWeights(ph) ==
    {WEIGHT_MAP[i].v : i \in {i \in ContainedIn(ph) :
        \A j \in ContainedIn(ph) : Len(WEIGHT_MAP[j].k) <= Len(WEIGHT_MAP[i].k)}}

HasItalicMarker(ph) == \E tok \in ITALIC_TOKENS : Contains(Lower(ph), tok)

\* the inferred style st is the weight of a longest entry of ph and its italic marker
LongestEntryWins(st, ph) ==
    /\ st.weight # <<>>
    /\ st.weight[1] \in LongestWeights(ph)
    /\ st.italic = HasItalicMarker(ph)

\* C9: for every subfamily phrase that contains a multi-word vocabulary entry,
\* weight_and_style_from_names and _infer_weight_and_italic_from_subfamily
\* return the weight of the longest entry the phrase contains, never that of a
\* shorter entry, and an italic flag that is true exactly when an italic
\* marker occurs in the phrase.
C9_LongestEntryWins ==
    (/\ emb.subfamily # <<>>
     /\ \E i \in ContainedIn(emb.subfamily[1]) : MultiWord(i))
        => /\ ccStyle # <<>> => LongestEntryWins(ccStyle[1], emb.subfamily[1])
           /\ naStyle # <<>> => LongestEntryWins(naStyle[1], emb.subfamily[1])

(***************************************************************************)
(* Claims on the collection tool.                                          *)
(***************************************************************************)
\* an italic marker, a variable-font marker or a version-like token
NonFamilyToken(t) == t \in ITALIC_TOKENS \/ t \in VF_MARKERS \/ _is_version_token(t)

\* the tokens of toks at the indices in keep, in their order
Kept(toks, keep) ==
    LET idx == {i \in 1..Len(toks) : keep[i]}
        Nth(n) == CHOOSE i \in idx : Cardinality({j \in idx : j <= i}) = n
    IN  [n \in 1..Cardinality(idx) |-> toks[Nth(n)]]

\* C11 as claimed: strip_style_tokens removes only italic markers,
\* variable-font markers and version-like tokens; every weight word is
\* retained and the retained tokens keep their order.
C11_OnlyNonFamilyTokensRemoved ==
    stripped # <<>> =>
        stripped[1] = Kept(tokenIn, [i \in 1..Len(tokenIn) |-> ~NonFamilyToken(tokenIn[i])])

\* token i of toks is a one-word weight, or it starts or ends two neighbouring
\* tokens that spell a two-word weight
WeightWordAt(toks, i) ==
    \/ InWeightMap(toks[i])
    \/ i < Len(toks) /\ InWeightMap(toks[i] \o <<" ">> \o toks[i + 1])
    \/ i > 1 /\ InWeightMap(toks[i - 1] \o <<" ">> \o toks[i])

\* C11 amended: strip_style_tokens removes italic markers, variable-font
\* markers, version-like tokens and also every weight word, one token or two
\* neighbouring tokens of a two-word weight; every other token is retained
\* and the retained tokens keep their order.
C11_WeightWordsRemovedToo ==
    stripped # <<>> =>
        stripped[1] = Kept(tokenIn, [i \in 1..Len(tokenIn) |->
                                        ~NonFamilyToken(tokenIn[i]) /\ ~WeightWordAt(tokenIn, i)])

C11_Witness ==
    /\ stripped = Some(<<<<"c", "o", "o", "l">>>>)
    /\ Len(tokenIn) = 4
    /\ tokenIn[2] = <<"e", "x", "t", "r", "a">>
    /\ tokenIn[4] = <<"i", "t", "a", "l", "i", "c">>

\* the whitespace-normalised embedded family of font file p, empty when the
\* file embeds none
EmbeddedFamily(p) ==
    LET fam == read_family_and_subfamily(p).family
    IN  IF fam = <<>> THEN <<>> ELSE SingleSpaced(fam[1])

\* the non-empty embedded family labels over all input fonts
EmbeddedLabels == {EmbeddedFamily(fonts[i]) : i \in 1..Len(fonts)} \ {<<>>}

\* C12: whenever the non-empty whitespace-normalised embedded family labels of
\* the input fonts are exactly one value, derive_collection_basename returns
\* that value as it is, not sanitised, whatever the filenames are.
C12_ConsensusLabelReturned ==
    (basename # <<>> /\ Cardinality(EmbeddedLabels) = 1) => basename[1] \in EmbeddedLabels

C12_Witness ==
    /\ basename = Some(<<"C", "o", "o", "l", " ", "F", "a", "m", "i", "l", "y">>)
    /\ Len(fonts) = 2
    /\ fonts[1].names # fonts[2].names
    /\ sanitize_filename(basename[1]) # basename[1]
    /\ \A i \in 1..2 : EmbeddedFamily(fonts[i]) # <<>>

\* the stripped, lower-cased filename tokens of each font
TokenLists == [i \in 1..Len(fonts) |-> strip_style_tokens(tokenize_stem(fonts[i].stem))]

\* every list has the first n tokens of the first list
AgreeOn(n) ==
    \A i \in 1..Len(fonts) :
        /\ Len(TokenLists[i]) >= n
        /\ \A k \in 1..n : TokenLists[i][k] = TokenLists[1][k]

\* the positional common prefix: up to the first mismatch or the shortest list
CommonPrefix ==
    SubSeq(TokenLists[1], 1,
           CHOOSE n \in 0..Len(TokenLists[1]) : AgreeOn(n) /\ ~AgreeOn(n + 1))

\* the hyphen/underscore-separated tokens of the first font's stem, as written
FirstRaw ==
    LET raw == ReSplit(fonts[1].stem, {"-", "_"})
    IN  [i \in 1..Len(raw) |-> Strip(raw[i])]

\* ts are tokens of the first font's stem, in their order, that lower-cased
\* spell the common prefix
OriginalCase(ts) ==
    /\ Len(ts) = Len(CommonPrefix)
    /\ \E idx \in [1..Len(ts) -> 1..Len(FirstRaw)] :
          /\ \A k \in 1..(Len(ts) - 1) : idx[k] < idx[k + 1]
          /\ \A k \in 1..Len(ts) : ts[k] = FirstRaw[idx[k]] /\ Lower(ts[k]) = CommonPrefix[k]

RECURSIVE Subsequences(_)
\* the subsequences of a list
Subsequences(xs) ==
    IF xs = <<>> THEN {<<>>}
    ELSE LET rest == Subsequences(Tail(xs))
         IN  rest \cup {<<xs[1]>> \o r : r \in rest}

\* r is what the filename fallback gives: the sanitised join of the first
\* font's original-case tokens for the common prefix or, the prefix being
\* empty, the sanitised parent directory name, the stem if that name is empty
IsFilenameFallback(r) ==
    IF CommonPrefix # <<>>
    THEN \E ts \in Subsequences(FirstRaw) :
            OriginalCase(ts) /\ r = sanitize_filename(Join(ts, <<" ">>))
    ELSE r = sanitize_filename(IF fonts[1].dir # <<>> THEN fonts[1].dir ELSE fonts[1].stem)

\* C13 as claimed: an embedded family label is returned only if every input
\* font supplies a non-empty embedded family and all of them are the same; if
\* any font has none, or two fonts disagree, the filename fallback is used.
C13_ConsensusOnlyWhenAllAgree ==
    (/\ basename # <<>>
     /\ \/ \E i \in 1..Len(fonts) : EmbeddedFamily(fonts[i]) = <<>>
        \/ Cardinality(EmbeddedLabels) > 1)
        => IsFilenameFallback(basename[1])

\* C13 amended: an embedded family label is returned only if all the fonts
\* that supply a non-empty embedded family supply the same one, the fonts
\* without one being left out; if no font supplies one, or two fonts disagree,
\* the filename fallback is used.
C13_ConsensusAmongEmbedded ==
    basename # <<>> =>
        IF Cardinality(EmbeddedLabels) = 1
        THEN basename[1] \in EmbeddedLabels
        ELSE IsFilenameFallback(basename[1])

C13_Witness ==
    /\ basename = Some(<<"C", "o", "o", "l", " ", "F", "a", "m", "i", "l", "y">>)
    /\ Len(fonts) = 2
    /\ EmbeddedFamily(fonts[1]) = <<>>
    /\ ~IsFilenameFallback(basename[1])

\* t is made of letters and digits only
LettersAndDigits(t) == \A i \in 1..Len(t) : IsAlpha(t[i]) \/ IsDigit(t[i])

\* C14 as claimed: without a consensus, a non-empty common prefix of the
\* stripped lower-cased token lists gives the sanitised join of the first
\* font's original-case tokens for that prefix, so that the lower-cased tokens
\* of the result are exactly the prefix; an empty prefix gives the sanitised
\* parent directory name of the first font, or its stem if that name is empty.
C14_FallbackSpellsThePrefix ==
    (basename # <<>> /\ Cardinality(EmbeddedLabels) # 1) =>
        /\ IsFilenameFallback(basename[1])
        /\ CommonPrefix # <<>> => tokenize_stem(basename[1]) = CommonPrefix

\* C14 amended: as claimed, but the lower-cased tokens of the result are the
\* prefix only when every prefix token is made of letters and digits.
C14_FallbackSpellsASafePrefix ==
    (basename # <<>> /\ Cardinality(EmbeddedLabels) # 1) =>
        /\ IsFilenameFallback(basename[1])
        /\ (/\ CommonPrefix # <<>>
            /\ \A k \in 1..Len(CommonPrefix) : LettersAndDigits(CommonPrefix[k]))
               => tokenize_stem(basename[1]) = CommonPrefix

C14_Witness ==
    /\ basename = Some(<<"M", "y", "F", "o", "n", "t">>)
    /\ Len(fonts) = 2
    /\ fonts[1].stem = <<"M", "y", "F", "o", "n", "t", "-", "0", "9", "0", "2", "-", "R", "e", "g", "u", "l", "a", "r">>
    /\ fonts[2].stem = <<"m", "y", "f", "o", "n", "t", "_", "E", "x", "t", "r", "a", "-", "L", "i", "g", "h", "t">>
    /\ EmbeddedLabels = {}

\* the characters of a sanitised name
SafeChar(c) == IsAlpha(c) \/ IsDigit(c) \/ c \in {".", "-", "_"}

\* C15: sanitize_filename is idempotent; its output holds only letters,
\* digits, dot, hyphen and underscore, no two consecutive underscores, no two
\* consecutive hyphens, and neither starts nor ends with a dot, a hyphen or
\* an underscore.
C15_SanitizeIdempotent ==
    /\ Len(sane) >= 1 =>
          /\ \A i \in 1..Len(sane[1]) : SafeChar(sane[1][i])
          /\ \A i \in 1..(Len(sane[1]) - 1) :
                ~(sane[1][i] = sane[1][i + 1] /\ sane[1][i] \in {"_", "-"})
          /\ sane[1] # <<>> =>
                sane[1][1] \notin {".", "-", "_"} /\ sane[1][Len(sane[1])] \notin {".", "-", "_"}
    /\ Len(sane) = 2 => sane[2] = sane[1]

C15_Witness ==
    /\ Len(sane) = 2
    /\ sane[2] = <<"a", "_", "-", "1">>
    /\ Len(rawName) = 4
    /\ rawName # sane[1]

\* every input header is a TrueType one, every input header is OTTO
AllTrueType == headers # <<>> /\ \A i \in 1..Len(headers) : headers[i] \in {TrueType1, TrueTag}

AllOTTO == headers # <<>> /\ \A i \in 1..Len(headers) : headers[i] = OTTO

\* C16 as claimed: infer_collection_type returns ttc exactly when every input
\* header is TrueType and the forced type is absent or ttc, otc exactly when
\* every input header is OTTO and the forced type is absent or otc, and raises
\* in every other case, a forced type outside {ttc, otc} included (None and
\* the empty string are taken as absent).
C16_TypeFromHeaders ==
    ctype.state # "none" =>
        /\ ctype = Returned(TTC) <=> (AllTrueType /\ forced \in {<<>>, Some(<<>>), Some(TTC)})
        /\ ctype = Returned(OTC) <=> (AllOTTO /\ forced \in {<<>>, Some(<<>>), Some(OTC)})
        /\ ctype.state = "raised" <=>
              ~(\/ AllTrueType /\ forced \in {<<>>, Some(<<>>), Some(TTC)}
                \/ AllOTTO /\ forced \in {<<>>, Some(<<>>), Some(OTC)})

\* the forced type is absent (None or empty) or spells t in any letter case
AbsentOr(t) == forced = <<>> \/ forced = Some(<<>>) \/ Lower(forced[1]) = t

\* C16 amended: as claimed, the forced type being compared without regard to
\* letter case (TTC is ttc), None and the empty string being absent.
C16_TypeFromHeadersAnyCase ==
    ctype.state # "none" =>
        /\ ctype = Returned(TTC) <=> (AllTrueType /\ AbsentOr(TTC))
        /\ ctype = Returned(OTC) <=> (AllOTTO /\ AbsentOr(OTC))
        /\ ctype.state = "raised" <=>
              ~((AllTrueType /\ AbsentOr(TTC)) \/ (AllOTTO /\ AbsentOr(OTC)))

C16_Witness ==
    /\ ctype = Returned(TTC)
    /\ Len(headers) = 2
    /\ headers[1] # headers[2]
    /\ forced = Some(TTC)

\* the weight of font p, 1000 when none can be determined; whether it is italic
WeightOf(p) ==
    LET names == read_family_and_subfamily(p)
        w == weight_and_style_from_names(names.family, names.subfamily, p.stem).weight
    IN  IF w = <<>> THEN 1000 ELSE w[1]

ItalicOf(p) ==
    LET names == read_family_and_subfamily(p)
    IN  weight_and_style_from_names(names.family, names.subfamily, p.stem).italic

\* p may stand before q: lighter, or as heavy and upright before italic, or
\* alike in both and its lower-cased file name not behind the other one
MayPrecede(p, q) ==
    \/ WeightOf(p) < WeightOf(q)
    \/ WeightOf(p) = WeightOf(q) /\ ~ItalicOf(p) /\ ItalicOf(q)
    \/ /\ WeightOf(p) = WeightOf(q)
       /\ ItalicOf(p) = ItalicOf(q)
       /\ \/ StrLess(Lower(p.stem \o p.suffix), Lower(q.stem \o q.suffix))
          \/ Lower(p.stem \o p.suffix) = Lower(q.stem \o q.suffix)

C18_OrderIndependentOfInput ==
    (sortOut # <<>> /\ firstOut # <<>>) => sortOut = firstOut

(***************************************************************************)
(* Claims on the weight ladder.                                            *)
(***************************************************************************)
\* the font's weight range is known and holds at least one value
RangeKnown == rng # <<>> /\ rng[1][1] <= rng[1][2]

\* base + offset of the i-th standard weight
Wanted(i) == 4 * ladder[i][1] + offset

DigitValue(c) == IndexOf(DigitChars, c) - 1

RECURSIVE Number(_)
\* the number a string of digits spells
Number(ds) ==
    IF ds = <<>> THEN 0
    ELSE 10 * Number(SubSeq(ds, 1, Len(ds) - 1)) + DigitValue(ds[Len(ds)])

RECURSIVE Pow10(_)
Pow10(n) == IF n = 0 THEN 1 ELSE 10 * Pow10(n - 1)

Unsigned(s) == IF s # <<>> /\ s[1] = "-" THEN Tail(s) ELSE s

Points(s) == {i \in 1..Len(s) : s[i] = "."}

WholePart(s) ==
    IF Points(s) = {} THEN Unsigned(s)
    ELSE SubSeq(Unsigned(s), 1, (CHOOSE i \in Points(Unsigned(s)) : TRUE) - 1)

FractionPart(s) ==
    IF Points(s) = {} THEN <<>>
    ELSE SubSeq(Unsigned(s), (CHOOSE i \in Points(Unsigned(s)) : TRUE) + 1, Len(Unsigned(s)))

\* s is a decimal numeral: an optional sign, digits, and at most one point
\* with digits behind it, the last of them not 0
IsNumeral(s) ==
    /\ Cardinality(Points(s)) <= 1
    /\ AllDigits(WholePart(s))
    /\ Points(s) # {} =>
          /\ AllDigits(FractionPart(s))
          /\ FractionPart(s)[Len(FractionPart(s))] # "0"

\* the value of a numeral, times four
FourTimes(s) ==
    (IF s[1] = "-" THEN -1 ELSE 1) *
        (4 * Number(WholePart(s))
            + (4 * Number(FractionPart(s))) \div Pow10(Len(FractionPart(s))))

\* C20: compose_weight_basename gives <stem>-<weightName> exactly when the
\* offset is zero and otherwise <stem>-<weightName>-<n>, n being the numeral
\* of the resolved value: without a point when the value is whole, with its
\* decimal part otherwise; the base plays no part.
C20_BasenameSpellsResolved ==
    \A i \in 1..Len(attempts) :
        LET name == attempts[i].basename
            head == stem \o <<"-">> \o attempts[i].name
            n == SubSeq(name, Len(head) + 2, Len(name))
        IN  IF offset = 0 THEN name = head
            ELSE /\ Len(name) > Len(head) + 1
                 /\ SubSeq(name, 1, Len(head) + 1) = head \o <<"-">>
                 /\ IsNumeral(n)
                 /\ FourTimes(n) = attempts[i].resolved
                 /\ (Points(n) = {}) <=> (attempts[i].resolved % 4 = 0)

\* 700 + 12.5 gives Cool-Bold-712.5, 100 + 12.5 in the range [200, 900] Cool-Thin-200
C20_Witness ==
    /\ offset = 50
    /\ \E i \in 1..Len(attempts) :
          attempts[i].resolved = 2850 /\ attempts[i].basename = <<"C", "o", "o", "l", "-", "B", "o", "l", "d", "-", "7", "1", "2", ".", "5">>
    /\ \E i \in 1..Len(attempts) :
          attempts[i].resolved = 800 /\ attempts[i].basename = <<"C", "o", "o", "l", "-", "T", "h", "i", "n", "-", "2", "0", "0">>

(***************************************************************************)
(* Claims on the batch runs.                                               *)
(***************************************************************************)
\* C21: a failure of one item never stops a batch: when weightadjust's main
\* has ended over a loadable configuration, every discovered font has been
\* attempted exactly once, in discovery order, whatever happened to the
\* fonts before it.
C21_EveryFontAttempted ==
    (outcome # Running /\ load_config(config).state = "ok") =>
        [i \in 1..Len(visited) |-> visited[i].font] = discovered

\* every standard-weight output of every visited font was produced
EveryItemSucceeded ==
    \A i \in 1..Len(visited) :
        /\ visited[i].state = "ok"
        /\ Len(visited[i].created) = WeightsIn(config)

\* C22: weightadjust's main returns 0 if and only if at least one font was
\* discovered and every standard-weight output of every font was produced,
\* and it returns 1 when no font was discovered.
C22_ZeroIffEveryItemSucceeded ==
    outcome.state = "returned" =>
        /\ outcome.code = 0 <=> (discovered # <<>> /\ EveryItemSucceeded)
        /\ discovered = <<>> => outcome.code = 1

\* C24: with the weight vocabulary missing or invalid, a run of weightadjust
\* over discovered, readable fonts ends by returning status 2, without
\* raising, without one run of the mutator and without an output.
C24_MissingConfigReturnsTwo ==
    (/\ outcome # Running
     /\ discovered # <<>>
     /\ \A i \in 1..Len(discovered) : discovered[i].readable
     /\ load_config(config).state # "ok") =>
        /\ outcome = ReturnedStatus(2)
        /\ \A i \in 1..Len(visited) : visited[i].runs = 0
        /\ written = <<>>

(***************************************************************************)
(* Claims on the collection run.                                           *)
(***************************************************************************)
TrueTypeHead(f) == f.head \in {TrueType1, TrueTag}

OpenTypeHead(f) == f.head = OTTO

\* the inputs can be classified: all TrueType or all OTTO, and the forced
\* type, if there is one, is the one of that flavour
Classified ==
    \/ /\ \A i \in 1..Len(discovered) : TrueTypeHead(discovered[i])
       /\ args.type \in {<<>>, Some(TTC)}
    \/ /\ \A i \in 1..Len(discovered) : OpenTypeHead(discovered[i])
       /\ args.type \in {<<>>, Some(OTC)}

MainEnded == outcome # Running /\ visited # <<"write_collection">>

\* C23: in every run of createcollection's main write_collection is called
\* only after infer_collection_type has succeeded; a container is saved only
\* with every member of the flavour of its kind; with an unrecognised header,
\* mixed inputs or a conflicting forced type no file is created and main
\* returns a non-zero status; a dry run never writes a file.
C23_NoContainerUnlessClassified ==
    /\ \A i \in 1..Len(written) :
          \A j \in 1..Len(written[i].members) :
              IF written[i].kind = TTC THEN TrueTypeHead(written[i].members[j])
              ELSE OpenTypeHead(written[i].members[j])
    /\ MainEnded =>
          /\ (\E i \in 1..Len(visited) : visited[i] = "write_collection") =>
                (visited[1] = "infer_collection_type" /\ Classified)
          /\ (discovered # <<>> /\ ~Classified) =>
                (written = <<>> /\ outcome.state = "returned" /\ outcome.code # 0)
          /\ args.dry_run => written = <<>>

\* two TrueType files, one with the 'true' header, are written into one ttc
C23_Witness ==
    /\ MainEnded
    /\ outcome = ReturnedStatus(0)
    /\ Len(discovered) = 2
    /\ visited[Len(visited)] = "write_collection"
    /\ Len(written) = 1
    /\ written[1].kind = TTC
    /\ ~written[1].partial
    /\ Len(written[1].members) = 2

(***************************************************************************)
(* Claims on the identity rewrite.                                         *)
(***************************************************************************)
IdentityIDs == {1, 2, 4, 6, 16, 17}

\* C25: every identity rewrite, rewrite_name_table as well as
\* _rewrite_internal_names, writes the name IDs 1, 2, 4, 6, 16 and 17 for the
\* Windows and for the Mac encoding before it saves.
C25_SixRecordsOnBothPlatforms ==
    outcome.state = "done" =>
        {<<visited[i].nameID, visited[i].platform>> : i \in 1..Len(visited)}
            = IdentityIDs \X {"windows", "mac"}

\* the font the rewrite saved carries the style tables
SavedWithStyleTables ==
    /\ outcome.state = "done"
    /\ args.tool = "nameadjust"
    /\ args.subfamily \in _STYLE_SET
    /\ written[1].os2 # <<>>
    /\ written[1].head # <<>>

\* C29: for every subfamily of the recognised style phrases, rewrite_name_table
\* sets the bold bits (fsSelection bit 5, macStyle bit 0) exactly when the
\* inferred weight class is 700, sets the italic bits (fsSelection bit 0,
\* macStyle bit 1) exactly when the subfamily contains Italic, and sets the
\* REGULAR bit (fsSelection bit 6) only when neither bold nor italic is set.
C29_OnlyBoldIsBold ==
    SavedWithStyleTables =>
        LET fs == written[1].os2[1].fsSelection
            mac == written[1].head[1].macStyle
            bold == written[1].os2[1].usWeightClass = 700
            italic == Contains(args.subfamily, Italic)
        IN  /\ HasBit(fs, 5) <=> bold
            /\ HasBit(mac, 0) <=> bold
            /\ HasBit(fs, 0) <=> italic
            /\ HasBit(mac, 1) <=> italic
            /\ HasBit(fs, 6) => ~HasBit(fs, 5) /\ ~HasBit(fs, 0)

(***************************************************************************)
(* Claims on the precedence of embedded names over the filename.           *)
(***************************************************************************)
\* the embedded name s (None or a string) contains an italic marker
SaysItalic(s) ==
    /\ s # <<>>
    /\ \E tok \in ITALIC_TOKENS : Contains(SingleSpaced(Lower(s[1])), tok)

\* the embedded name s (None or a string) contains a weight phrase
SaysWeight(s) ==
    /\ s # <<>>
    /\ \E i \in 1..Len(WEIGHT_MAP) : Contains(SingleSpaced(Lower(s[1])), WEIGHT_MAP[i].k)

\* C26: in weight_and_style_from_names a weight phrase of the embedded
\* subfamily or family determines the weight and an italic marker of the
\* embedded subfamily or family makes the italic flag true, whatever the
\* filename stem says; the stem decides the weight only when the names carry no
\* weight phrase, and the italic flag only when they carry no italic marker.
C26_EmbeddedNamesTakePrecedence ==
    ccStyle # <<>> =>
        LET got == ccStyle[1]
            byStem == weight_and_style_from_names(<<>>, <<>>, stem)
        IN  /\ SaysWeight(emb.subfamily) => got.weight = InferFrom(emb.subfamily).weight
            /\ ~SaysWeight(emb.subfamily) /\ SaysWeight(emb.family)
                  => got.weight = InferFrom(emb.family).weight
            /\ SaysItalic(emb.subfamily) \/ SaysItalic(emb.family) => got.italic
            /\ ~SaysWeight(emb.subfamily) /\ ~SaysWeight(emb.family)
                  => got.weight = byStem.weight

(***************************************************************************)
(* Claims on renaming twice.                                               *)
(***************************************************************************)
\* the file name process_font gives a file whose stem is s
CleanStemOf(s) ==
    LET names == split_family_subfamily(humanize_stem(s))
    IN  make_clean_stem(names.family, names.subfamily)

\* C27: the cleaned stem of every filename stem that humanizes to a non-empty
\* name is a fixed point of the renaming: process_font applied to a file
\* already named by it keeps the name.
C27_RenamingIsIdempotent ==
    clean # <<>> /\ humanize_stem(stem) # <<>> => CleanStemOf(clean[1]) = clean[1]

(***************************************************************************)
(* Claims on colliding aliases.                                            *)
(***************************************************************************)
\* the i-th [aliases] entry is registered: its target is a declared canonical name
ValidAlias(i) ==
    LET e == config.aliases.entries[i]
    IN  /\ e.v.type = "str"
        /\ \E j \in 1..Len(config.weights.entries) : config.weights.entries[j].k = e.v.v

\* the normalised phrase of the i-th [aliases] entry
AliasPhrase(i) == _normalize_phrase(config.aliases.entries[i].k)

\* the i-th entry is the last valid alias entry of its normalised phrase
LastOfItsPhrase(i) ==
    /\ ValidAlias(i)
    /\ \A j \in (i + 1)..Len(config.aliases.entries) :
           ValidAlias(j) => AliasPhrase(j) # AliasPhrase(i)

\* C28: after load_config a phrase that valid aliases normalise to resolves to
\* the target of the last of them in configuration order, also when a
\* canonical name or an earlier alias had registered the same phrase.
C28_LastAliasWins ==
    loaded.state = "ok" =>
        \A i \in 1..Len(config.aliases.entries) :
            LastOfItsPhrase(i) =>
                DictGet(loaded.normalized_to_canonical, AliasPhrase(i))
                    = Some(config.aliases.entries[i].v.v)

\* two valid aliases of one phrase with different targets, the phrase being a
\* canonical name's own normalised form too
C28_Witness ==
    /\ loaded.state = "ok"
    /\ \E i, j \in 1..Len(config.aliases.entries) :
          /\ i < j
          /\ ValidAlias(i)
          /\ LastOfItsPhrase(j)
          /\ AliasPhrase(i) = AliasPhrase(j)
          /\ config.aliases.entries[i].v.v # config.aliases.entries[j].v.v
          /\ \E c \in 1..Len(config.weights.entries) :
                /\ _normalize_phrase(config.weights.entries[c].k) = AliasPhrase(j)
                /\ config.weights.entries[c].k # config.aliases.entries[j].v.v

(***************************************************************************)
(* Claims on the outputs of one ladder.                                    *)
(***************************************************************************)
\* C30: within one run of process_font_all_weights over distinct canonical
\* names the output basenames are pairwise distinct, for every offset and
\* every axis range: no output of the ladder overwrites another.
C30_BasenamesPairwiseDistinct ==
    /\ \A i, j \in 1..Len(attempts) :
          i # j => attempts[i].basename # attempts[j].basename
    /\ \A i, j \in 1..Len(created) : i # j => created[i] # created[j]

====
